---- MODULE Spec2Model ----
(***************************************************************************)
(* Model of the client-side connection / correlation core of the Fermion   *)
(* sandbox SDK: SandboxWebSocket (src/src/websocket.ts, latest revision,    *)
(* lines 701-1122) and the Sandbox session that owns it (src/src/index.ts). *)
(*                                                                         *)
(* JavaScript runs every handler to completion on one thread, so each      *)
(* public method, timer callback and transport event is one atomic action. *)
(* Timers fire at a nondeterministic moment while they are armed.          *)
(***************************************************************************)
EXTENDS Integers, Sequences, FiniteSets, TLC

\* ---------------------------------------------------------------- bounds
\* Each specification explores the wrapper up to its own caps, fixed by its
\* initial condition in the variable cap:
\*   reqs      send() calls (requests of the owner and health pings together)
\*   waiters   waitForNextFutureWebSocketEvent() calls
\*   socks     transport sockets created with new WebSocket(...)
\*   stream    inbound StreamLongRunningTaskEvent messages
\*   handlers  addStreamingTaskHandler() calls
\*   types     the event types of the inbound non-streaming messages
\*   history   whether sockHistory is recorded
\*   returns   whether connectReturned is recorded
\*   calls     create() / fromSnippet() calls of the Sandbox
\*   wrappers  SandboxWebSocket objects the Sandbox creates
\*   slow      'still provisioning' answers one call may get
\*   git       the values of "a gitRepoUrl was given" create() is called with
\*   ops       whether session operations are called
\*   tasks     the task ids of the inbound streaming events
\*   codes     the exit codes of the inbound 'close' events
\*   errors    the error strings of the inbound 'close' events
\*   replyTasks  the uniqueTaskId of the inbound replies
\*   cmd       whether runStreamingCommand() is called
\*   streamIds  the messageId of the inbound streaming events
\*   apiCalls  how many calls are made on the ApiClient
\*   ticks     how many times the clock advances after the send() followed
\*   ports     the ports exposePort is called with
\*   paths     the paths getFile / writeFile are called with
MaxReq == 2
MaxSockets == 2
WaitMaxSockets == 2
MaxWaiters == 2
TeardownMaxReq == 1
TeardownMaxSockets == 2
TeardownMaxWaiters == 2
IdemMaxReq == 1
IdemMaxSockets == 2
IdemMaxWaiters == 1
StreamMaxSockets == 2
MaxStream == 3
MaxHandlers == 2
ConnMaxSockets == 3
MaxCalls == 2
MaxWrappers == 2
OpsMaxCalls == 2
OpsMaxWrappers == 1
ProvMaxCalls == 1
ProvMaxWrappers == 1
CmdMaxReq == 1
CmdMaxSockets == 1
CmdMaxStream == 3
ArgMaxCalls == 1
ArgMaxWrappers == 1
MaxPathLen == 2
DiscMaxCalls == 1
DiscMaxWrappers == 1
RouteMaxReq == 1
RouteMaxWaiters == 1
RouteMaxSockets == 1
RouteMaxHandlers == 1
RouteMaxStream == 1
HandMaxReq == 1
HandMaxSockets == 2
HandMaxHandlers == 2
HandMaxStream == 1
CmdDiscMaxReq == 1
CmdDiscMaxSockets == 2
CmdDiscMaxStream == 2
ApiMaxCalls == 2
SendMaxReq == 1
SendMaxTicks == 3

Null == 0

\* Sandbox.timeout and the polling interval of create() / fromSnippet(), in ms
timeout == 30000
interval == 500

StreamType == "StreamLongRunningTaskEvent"
\* the inbound event types that are not streaming events
InTypes == {"EvalSmallCodeSnippetInsideContainer", "ContainerServerReady"}
Tasks == {"t1", "t2"}

VARIABLES
    connectionState,        \* 'disconnected' | 'connecting' | 'connected'
    ws,                     \* this.ws: a socket id, or Null
    shouldAutoReconnect,
    urlOk,                  \* whether new WebSocket(wsUrl) accepts the URL
    socks,                  \* the transport sockets created so far
    sockHistory,            \* per socket: who created it (origin), the value of
                            \* shouldAutoReconnect then, whether it ever opened,
                            \* whether disconnect() was called while it was the
                            \* latest socket
    pendingMap,             \* keys of messageIdToWebSocketResponsePromiseMapping
    reqs,                   \* per send(): its deferred promise, its timer,
                            \* and whether send() had to queue the message
    waitMap,                \* waitQueueToEventTypePromiseMapping: type -> waiter
    waiters,                \* per wait call: its deferred promise and its timer
    messagesData,           \* the outbound queue (message ids)
    healthPingTimeoutId,    \* "null" | "armed" | "stale" (fired, id kept)
    pingTimers,             \* how many ping timers are set and have neither
                            \* fired nor been cleared
    streamingTaskHandlers,  \* task id -> handler id, or Null
    nHandlers,              \* handlers registered so far
    transportLog,           \* messages handed to ws.send(), in order
    cbLog,                  \* handler callbacks invoked, in order
    inLog,                  \* streaming events received, each with the
                            \* handler onMessage found for it (h)
    cap,                    \* the caps of the exploration (never changes)
    connectReturned,        \* whether a connect() found the wrapper 'connected'
                            \* and returned resolved at once (when cap.returns)
    sandboxWs,              \* Sandbox.ws: the wrapper the session holds, or Null
    wrappers,               \* the SandboxWebSocket objects the session created
    calls,                  \* create() / fromSnippet() calls and where they are
    disconnecting,          \* whether Sandbox.disconnect() is at its await
    teardownWs,             \* the wrapper this.ws held when the disconnect()
                            \* at its await was called, else Null
    playgroundSnippetId,    \* Sandbox.playgroundSnippetId, or Null
    playgroundSessionId,    \* Sandbox.playgroundSessionId, or Null
    containerDetails,       \* Sandbox.containerDetails, or Null
    tornDown,               \* whether disconnect() completed and no create()
                            \* or fromSnippet() was called since
    lastOp,                 \* the session operation called last and what it
                            \* did first (when cap.ops)
    api,                    \* one ApiClient: whether it was constructed, its
                            \* call in progress, the requests it has issued
    sendTimer,              \* the send() call followed on the clock: its
                            \* options argument, the delay its timer was set
                            \* with, the time elapsed since, when it fired
    cmd                     \* the runStreamingCommand() call followed: where it
                            \* is, its request, its handler, the stdout and
                            \* stderr of its closure, what it resolved with

vars == <<connectionState, ws, shouldAutoReconnect, urlOk, socks, sockHistory, pendingMap,
          reqs, waitMap, waiters, messagesData, healthPingTimeoutId, pingTimers,
          streamingTaskHandlers, nHandlers, transportLog, cbLog, inLog, cap,
          connectReturned, sandboxWs, wrappers, calls, disconnecting, teardownWs,
          playgroundSnippetId, playgroundSessionId, containerDetails, tornDown, lastOp,
          cmd, api, sendTimer>>

\* the state of the Sandbox object and of the wrappers it created
sandboxVars == <<sandboxWs, wrappers, calls, disconnecting, teardownWs, playgroundSnippetId,
                 playgroundSessionId, containerDetails, tornDown, lastOp, api>>

\* the state of one SandboxWebSocket followed in detail, but for the clock
wrapperVarsButTimer == <<connectionState, ws, shouldAutoReconnect, urlOk, socks, sockHistory,
                         pendingMap, reqs, waitMap, waiters, messagesData,
                         healthPingTimeoutId, pingTimers, streamingTaskHandlers,
                         nHandlers, transportLog, cbLog, inLog, connectReturned, cmd>>

\* the state of one SandboxWebSocket followed in detail
wrapperVars == <<connectionState, ws, shouldAutoReconnect, urlOk, socks, sockHistory,
                 pendingMap, reqs, waitMap, waiters, messagesData, healthPingTimeoutId, pingTimers,
                 streamingTaskHandlers, nHandlers, transportLog, cbLog, inLog,
                 connectReturned, cmd, sendTimer>>

\* ------------------------------------------------------- deferred promises

\* an inbound message {messageId, payload: {eventType, uniqueTaskId,
\* eventDetails: {type, stdout, stderr, code, error}}}; messageId Null: the
\* message has none; code and error are <<>> for null, else <<value>>; the
\* text of a chunk is identified by the arrival number of its event
NoMsg == [eventType |-> "none", messageId |-> Null, uniqueTaskId |-> "none",
          type |-> "none", stdout |-> FALSE, stderr |-> FALSE,
          code |-> <<>>, error |-> <<>>]

\* no runStreamingCommand() call was made
NoCmd == [pc |-> "idle", req |-> Null, task |-> "none", h |-> Null,
          stdout |-> <<>>, stderr |-> <<>>, resolves |-> 0,
          result |-> [stdout |-> <<>>, stderr |-> <<>>, exitCode |-> <<>>],
          err |-> "none", startN |-> 0, regN |-> 0, closeN |-> 0]

\* no ApiClient constructed yet
NoApi == [pc |-> "none", key |-> <<>>, inputOk |-> TRUE, reply |-> "ok",
          calls |-> 0, validCalls |-> 0, sent |-> 0, requests |-> 0,
          err |-> "none", data |-> FALSE]

\* no send() call is followed on the clock
NoTimer == [state |-> "none", req |-> 0, given |-> FALSE, timeout |-> <<>>,
            delay |-> 0, elapsed |-> 0, ticks |-> 0, firedAt |-> 0]

\* new DeferredPromise(): nothing settled it yet
NewDeferred == [state |-> "pending", reason |-> "none", value |-> NoMsg, calls |-> 0]

\* deferredPromise.resolve?.(payload): a promise keeps its first settlement
Resolve(d, payload) ==
    IF d.state = "pending"
    THEN [d EXCEPT !.state = "resolved", !.value = payload, !.calls = @ + 1]
    ELSE [d EXCEPT !.calls = @ + 1]

\* deferredPromise.reject?.(new Error(reason))
Reject(d, why) ==
    IF d.state = "pending"
    THEN [d EXCEPT !.state = "rejected", !.reason = why, !.calls = @ + 1]
    ELSE [d EXCEPT !.calls = @ + 1]

\* ------------------------------------------------------------------ Init

InitWrapper ==
    /\ connectionState = "disconnected"
    /\ ws = Null
    /\ shouldAutoReconnect = TRUE
    /\ urlOk \in BOOLEAN
    /\ socks = <<>>
    /\ sockHistory = <<>>
    /\ pendingMap = {}
    /\ reqs = <<>>
    /\ waitMap = [t \in InTypes |-> Null]
    /\ waiters = <<>>
    /\ messagesData = <<>>
    /\ healthPingTimeoutId = "null"
    /\ pingTimers = 0
    /\ sendTimer = NoTimer
    /\ streamingTaskHandlers = [t \in Tasks |-> Null]
    /\ nHandlers = 0
    /\ transportLog = <<>>
    /\ cmd = NoCmd
    /\ cbLog = <<>>
    /\ inLog = <<>>
    /\ connectReturned = FALSE

\* ------------------------------------------------------------- transport

\* new WebSocket(wsUrl) with the four listeners of connect() attached; backoff:
\* whether the onClose() of this socket's close event is in its 2000 ms wait
NewSocket ==
    [readyState |-> "CONNECTING", listeners |-> TRUE, backoff |-> "none"]

\* a sendSingleMessage that puts a message it cannot send at the head of the
\* queue
SendSingleMessage_Unshift(cs, sock, sk, q, log, m) ==
    IF cs # "connected" \/ sock = Null
    THEN [queue |-> <<m>> \o q, log |-> log]
    ELSE IF sk[sock].readyState = "CONNECTING"
    THEN [queue |-> <<m>> \o q, log |-> log]
    ELSE IF sk[sock].readyState = "OPEN"
    THEN [queue |-> q, log |-> Append(log, [sock |-> sock, id |-> m])]
    ELSE [queue |-> q, log |-> log]

\* a sendSingleMessage whose catch does not put the message back in the queue
SendSingleMessage_NoRequeue(cs, sock, sk, q, log, m) ==
    IF cs # "connected" \/ sock = Null
    THEN [queue |-> Append(q, m), log |-> log]
    ELSE IF sk[sock].readyState = "OPEN"
    THEN [queue |-> q, log |-> Append(log, [sock |-> sock, id |-> m])]
    ELSE [queue |-> q, log |-> log]

\* sendSingleMessage(message): hand the message to the transport, or queue it.
\* ws.send() throws on a socket that is still CONNECTING (the catch re-queues)
\* and drops the data without throwing on a CLOSING or CLOSED one.
SendSingleMessage(cs, sock, sk, q, log, m) ==
    IF cs # "connected" \/ sock = Null
    THEN [queue |-> Append(q, m), log |-> log]
    ELSE IF sk[sock].readyState = "CONNECTING"
    THEN [queue |-> Append(q, m), log |-> log]
    ELSE IF sk[sock].readyState = "OPEN"
    THEN [queue |-> q, log |-> Append(log, [sock |-> sock, id |-> m])]
    ELSE [queue |-> q, log |-> log]

\* the loop of onOpen(): for (const message of queue) sendSingleMessage(message)
RECURSIVE FlushQueue(_, _, _, _, _)
FlushQueue(cs, sock, sk, rest, acc) ==
    IF rest = <<>>
    THEN acc
    ELSE FlushQueue(cs, sock, sk, Tail(rest),
                    SendSingleMessage(cs, sock, sk, acc.queue, acc.log, Head(rest)))

\* -------------------------------------------------------------- teardown

\* a socket that has closed: it emits no further event, so its listeners no
\* longer matter
Closed(sk, s) == [sk EXCEPT ![s].readyState = "CLOSED", ![s].listeners = FALSE]

\* cleanDirtyWebSocketIfPresent(), the socket: removeAllListeners(), close()
\* when OPEN. With its listeners removed the closing handshake of the socket
\* is invisible to the wrapper: the socket counts as closed at once.
CleanSocks(sk) ==
    IF ws # Null
    THEN [sk EXCEPT ![ws].listeners = FALSE,
                    ![ws].readyState = IF @ = "OPEN" THEN "CLOSED" ELSE @]
    ELSE sk

\* cleanDirtyWebSocketIfPresent(), the pending requests: clearTimeout and
\* reject('WebSocket closed') for every entry of the map
CleanReqs ==
    [i \in DOMAIN reqs |->
        IF i \in pendingMap
        THEN [reqs[i] EXCEPT !.timer = IF @ = "armed" THEN "cleared" ELSE @,
                             !.p = Reject(@, "closed")]
        ELSE reqs[i]]

\* cleanDirtyWebSocketIfPresent(), the event waiters: the same for every
\* entry of the waiter map
CleanWaiters ==
    [w \in DOMAIN waiters |->
        IF \E t \in InTypes : waitMap[t] = w
        THEN [waiters[w] EXCEPT !.timer = IF @ = "armed" THEN "cleared" ELSE @,
                                !.p = Reject(@, "closed")]
        ELSE waiters[w]]

\* cleanDirtyWebSocketIfPresent(), everything but the sockets
CleanDirtyWebSocketIfPresent ==
    /\ ws' = Null
    /\ healthPingTimeoutId' = "null"
    /\ pingTimers' = IF healthPingTimeoutId = "armed" THEN pingTimers - 1 ELSE pingTimers
    /\ reqs' = CleanReqs
    /\ pendingMap' = {}
    /\ waiters' = CleanWaiters
    /\ waitMap' = [t \in InTypes |-> Null]
    /\ messagesData' = <<>>

\* ------------------------------------------------------------ public API

\* connect(): a no-op when connected; otherwise 'connecting' and a new socket
\* (the catch: new WebSocket threw, back to 'disconnected')
\* by: Null for a call of the owner, else the socket whose close event led to
\* this reconnect (recorded in sockHistory)
\* a connect() without the test of the state: a new socket every time
DoConnect_Reopen(by, sk) ==
    IF urlOk
    THEN /\ connectionState' = "connecting"
         /\ socks' = Append(sk, NewSocket)
         /\ ws' = Len(sk) + 1
         /\ connectReturned' = (connectReturned \/ (cap.returns /\ connectionState = "connected"))
         /\ sockHistory' = IF cap.history
                           THEN Append(sockHistory,
                                       [origin |-> by, opened |-> FALSE,
                                        auto |-> shouldAutoReconnect,
                                        disconnected |-> FALSE])
                           ELSE sockHistory
    ELSE /\ connectionState' = "disconnected"
         /\ socks' = sk
         /\ UNCHANGED <<ws, sockHistory, connectReturned>>

DoConnect(by, sk) ==
    IF connectionState = "connected"
    THEN /\ socks' = sk
         /\ connectReturned' = (connectReturned \/ cap.returns)
         /\ UNCHANGED <<connectionState, ws, sockHistory>>
    ELSE IF urlOk
    THEN /\ connectionState' = "connecting"
         /\ UNCHANGED connectReturned
         /\ socks' = Append(sk, NewSocket)
         /\ ws' = Len(sk) + 1
         /\ sockHistory' = IF cap.history
                           THEN Append(sockHistory,
                                       [origin |-> by, opened |-> FALSE,
                                        auto |-> shouldAutoReconnect,
                                        disconnected |-> FALSE])
                           ELSE sockHistory
    ELSE /\ connectionState' = "disconnected"
         /\ socks' = sk
         /\ UNCHANGED <<ws, sockHistory, connectReturned>>

\* whether a connect() now stays within the model's bound on sockets
CanConnect == connectionState = "connected" \/ ~urlOk \/ Len(socks) < cap.socks

\* connect() called by the owner of the wrapper
Connect ==
    /\ CanConnect
    /\ DoConnect(Null, socks)
    /\ UNCHANGED <<shouldAutoReconnect, urlOk, pendingMap, reqs, waitMap,
                   waiters, messagesData, healthPingTimeoutId, pingTimers,
                   streamingTaskHandlers, nHandlers, transportLog, cbLog, inLog, cap,
                   cmd, sendTimer,
                   sandboxVars>>

\* send({payload}): a fresh message id, a deferred promise, a timer, the map
\* entry, then sendSingleMessage
DoSend(evType) ==
    LET id == Len(reqs) + 1
        r  == SendSingleMessage(connectionState, ws, socks, messagesData,
                                transportLog, id)
    IN  /\ reqs' = Append(reqs, [eventType |-> evType, timer |-> "armed",
                                 p |-> NewDeferred,
                                 queued |-> r.queue # messagesData])
        /\ pendingMap' = pendingMap \cup {id}
        /\ messagesData' = r.queue
        /\ transportLog' = r.log

Send ==
    /\ Len(reqs) < cap.reqs
    /\ DoSend("EvalSmallCodeSnippetInsideContainer")
    /\ UNCHANGED <<connectionState, ws, shouldAutoReconnect, urlOk, sockHistory, socks,
                   waitMap, waiters, healthPingTimeoutId, pingTimers,
                   streamingTaskHandlers, nHandlers, cbLog, inLog, cap,
                   connectReturned, cmd, sendTimer,
                   sandboxVars>>

\* a timer callback of send() that rejects and leaves the entry in the map
RequestTimeout_Leak(i) ==
    /\ i \in DOMAIN reqs
    /\ reqs[i].timer = "armed"
    /\ reqs' = [reqs EXCEPT ![i].timer = "fired", ![i].p = Reject(@, "timeout")]
    /\ UNCHANGED <<connectionState, ws, shouldAutoReconnect, urlOk, sockHistory, socks,
                   pendingMap, waitMap, waiters, messagesData, healthPingTimeoutId, pingTimers,
                   streamingTaskHandlers, nHandlers, transportLog, cbLog, inLog, cap,
                   connectReturned, cmd, sendTimer,
                   sandboxVars>>

\* the timer callback of send(): delete the entry, reject with a timeout error
RequestTimeout(i) ==
    /\ i \in DOMAIN reqs
    /\ reqs[i].timer = "armed"
    /\ pendingMap' = pendingMap \ {i}
    /\ reqs' = [reqs EXCEPT ![i].timer = "fired", ![i].p = Reject(@, "timeout")]
    /\ UNCHANGED <<connectionState, ws, shouldAutoReconnect, urlOk, sockHistory, socks,
                   waitMap, waiters, messagesData, healthPingTimeoutId, pingTimers,
                   streamingTaskHandlers, nHandlers, transportLog, cbLog, inLog, cap,
                   connectReturned, cmd, sendTimer,
                   sandboxVars>>

\* a waitForNextFutureWebSocketEvent that overwrites the registered waiter
\* without failing it
WaitForNextFutureWebSocketEvent_Overwrite(t) ==
    /\ Len(waiters) < cap.waiters
    /\ waiters' = Append(waiters, [eventType |-> t, timer |-> "armed",
                                   p |-> NewDeferred])
    /\ waitMap' = [waitMap EXCEPT ![t] = Len(waiters) + 1]
    /\ UNCHANGED <<connectionState, ws, shouldAutoReconnect, urlOk, sockHistory, socks,
                   pendingMap, reqs, messagesData, healthPingTimeoutId, pingTimers,
                   streamingTaskHandlers, nHandlers, transportLog, cbLog, inLog, cap,
                   connectReturned, cmd, sendTimer,
                   sandboxVars>>

\* waitForNextFutureWebSocketEvent({eventType}): reject the waiter already
\* registered for the type (its timer keeps running), register the new one
WaitForNextFutureWebSocketEvent(t) ==
    /\ Len(waiters) < cap.waiters
    /\ LET existing == waitMap[t]
           w == Len(waiters) + 1
           ws1 == IF existing # Null
                  THEN [waiters EXCEPT ![existing].p = Reject(@, "replaced")]
                  ELSE waiters
       IN /\ waiters' = Append(ws1, [eventType |-> t, timer |-> "armed",
                                     p |-> NewDeferred])
          /\ waitMap' = [waitMap EXCEPT ![t] = w]
    /\ UNCHANGED <<connectionState, ws, shouldAutoReconnect, urlOk, sockHistory, socks,
                   pendingMap, reqs, messagesData, healthPingTimeoutId, pingTimers,
                   streamingTaskHandlers, nHandlers, transportLog, cbLog, inLog, cap,
                   connectReturned, cmd, sendTimer,
                   sandboxVars>>

\* the timer callback of a wait: delete the entry of the event type (whichever
\* waiter holds it now), reject this wait's promise
WaiterTimeout(w) ==
    /\ w \in DOMAIN waiters
    /\ waiters[w].timer = "armed"
    /\ waitMap' = [waitMap EXCEPT ![waiters[w].eventType] = Null]
    /\ waiters' = [waiters EXCEPT ![w].timer = "fired",
                                  ![w].p = Reject(@, "timeout")]
    /\ UNCHANGED <<connectionState, ws, shouldAutoReconnect, urlOk, sockHistory, socks,
                   pendingMap, reqs, messagesData, healthPingTimeoutId, pingTimers,
                   streamingTaskHandlers, nHandlers, transportLog, cbLog, inLog, cap,
                   connectReturned, cmd, sendTimer,
                   sandboxVars>>

\* addStreamingTaskHandler({uniqueTaskId, handler})
AddStreamingTaskHandler(t) ==
    /\ nHandlers < cap.handlers
    /\ nHandlers' = nHandlers + 1
    /\ streamingTaskHandlers' = [streamingTaskHandlers EXCEPT ![t] = nHandlers + 1]
    /\ UNCHANGED <<connectionState, ws, shouldAutoReconnect, urlOk, sockHistory, socks,
                   pendingMap, reqs, waitMap, waiters, messagesData,
                   healthPingTimeoutId, pingTimers, transportLog, cbLog, inLog, cap,
                   connectReturned, cmd, sendTimer,
                   sandboxVars>>

\* a disconnect() that also forgets the streaming handlers
Disconnect_ClearHandlers ==
    /\ socks' = CleanSocks(socks)
    /\ CleanDirtyWebSocketIfPresent
    /\ sockHistory' = IF cap.history /\ sockHistory # <<>>
                      THEN [sockHistory EXCEPT ![Len(sockHistory)].disconnected = TRUE]
                      ELSE sockHistory
    /\ streamingTaskHandlers' = [t \in DOMAIN streamingTaskHandlers |-> Null]
    /\ UNCHANGED <<connectionState, shouldAutoReconnect, urlOk,
                   nHandlers, transportLog, cbLog, inLog, cap,
                   connectReturned, cmd, sendTimer,
                   sandboxVars>>

\* disconnect(): cleanDirtyWebSocketIfPresent() and nothing else
Disconnect ==
    /\ socks' = CleanSocks(socks)
    /\ CleanDirtyWebSocketIfPresent
    /\ sockHistory' = IF cap.history /\ sockHistory # <<>>
                      THEN [sockHistory EXCEPT ![Len(sockHistory)].disconnected = TRUE]
                      ELSE sockHistory
    /\ UNCHANGED <<connectionState, shouldAutoReconnect, urlOk,
                   streamingTaskHandlers, nHandlers, transportLog, cbLog, inLog, cap,
                   connectReturned, cmd, sendTimer,
                   sandboxVars>>

\* disableWsAutoReconnect()
DisableWsAutoReconnect ==
    /\ shouldAutoReconnect' = FALSE
    /\ UNCHANGED <<connectionState, ws, urlOk, sockHistory, socks, pendingMap, reqs, waitMap,
                   waiters, messagesData, healthPingTimeoutId, pingTimers,
                   streamingTaskHandlers, nHandlers, transportLog, cbLog, inLog, cap,
                   connectReturned, cmd, sendTimer,
                   sandboxVars>>

\* ------------------------------------------------- transport events, timers

\* an onOpen() whose startHealthPing() does not clear the timer already set
OnOpen_NoClear(sk) ==
    LET r == FlushQueue("connected", ws, sk, messagesData,
                        [queue |-> <<>>, log |-> transportLog])
    IN  /\ connectionState' = "connected"
        /\ messagesData' = r.queue
        /\ transportLog' = r.log
        /\ healthPingTimeoutId' = "armed"
        /\ pingTimers' = pingTimers + 1

\* onOpen(): 'connected', flush the queue in order, startHealthPing()
OnOpen(sk) ==
    LET r == FlushQueue("connected", ws, sk, messagesData,
                        [queue |-> <<>>, log |-> transportLog])
    IN  /\ connectionState' = "connected"
        /\ messagesData' = r.queue
        /\ transportLog' = r.log
        /\ healthPingTimeoutId' = "armed"
        /\ pingTimers' = (IF healthPingTimeoutId = "armed" THEN pingTimers - 1
                                                          ELSE pingTimers) + 1

\* the transport reports 'open' on socket s
SockOpen(s) ==
    /\ s \in DOMAIN socks
    /\ socks[s].readyState = "CONNECTING"
    /\ socks' = [socks EXCEPT ![s].readyState = "OPEN"]
    /\ sockHistory' = IF cap.history
                      THEN [sockHistory EXCEPT ![s].opened = TRUE]
                      ELSE sockHistory
    /\ IF socks[s].listeners
       THEN OnOpen(socks')
       ELSE UNCHANGED <<connectionState, messagesData, transportLog,
                        healthPingTimeoutId, pingTimers>>
    /\ UNCHANGED <<ws, shouldAutoReconnect, urlOk, pendingMap, reqs, waitMap,
                   waiters, streamingTaskHandlers, nHandlers, cbLog, inLog, cap,
                   connectReturned, cmd, sendTimer,
                   sandboxVars>>

\* onClose() up to its await: 'disconnected', cleanDirtyWebSocketIfPresent(),
\* and with shouldAutoReconnect the 2000 ms backoff timer of this close event
OnClose(s, sk) ==
    /\ connectionState' = "disconnected"
    /\ socks' = [CleanSocks(sk) EXCEPT
                    ![s].backoff = IF shouldAutoReconnect THEN "waiting" ELSE "none"]
    /\ CleanDirtyWebSocketIfPresent

\* the transport fails to open socket s: 'error' (logged; the connect() promise
\* is rejected when 'connecting'), then 'close'
SockFail(s) ==
    /\ s \in DOMAIN socks
    /\ socks[s].readyState = "CONNECTING"
    /\ IF socks[s].listeners
       THEN OnClose(s, Closed(socks, s))
       ELSE /\ socks' = Closed(socks, s)
            /\ UNCHANGED <<connectionState, ws, pendingMap, reqs, waitMap, waiters,
                           messagesData, healthPingTimeoutId, pingTimers>>
    /\ UNCHANGED <<shouldAutoReconnect, urlOk, sockHistory, streamingTaskHandlers, nHandlers,
                   transportLog, cbLog, inLog, cap, connectReturned, cmd, sendTimer,
                   sandboxVars>>

\* the transport reports 'close' on an open socket s
SockClose(s) ==
    /\ s \in DOMAIN socks
    /\ socks[s].readyState = "OPEN"
    /\ IF socks[s].listeners
       THEN OnClose(s, Closed(socks, s))
       ELSE /\ socks' = Closed(socks, s)
            /\ UNCHANGED <<connectionState, ws, pendingMap, reqs, waitMap, waiters,
                           messagesData, healthPingTimeoutId, pingTimers>>
    /\ UNCHANGED <<shouldAutoReconnect, urlOk, sockHistory, streamingTaskHandlers, nHandlers,
                   transportLog, cbLog, inLog, cap, connectReturned, cmd, sendTimer,
                   sandboxVars>>

\* onClose() after its await: the backoff of socket s's close event elapsed,
\* connect() is called (a rejection is caught and logged)
Reconnect(s) ==
    /\ s \in DOMAIN socks
    /\ socks[s].backoff = "waiting"
    /\ CanConnect
    /\ DoConnect(s, [socks EXCEPT ![s].backoff = "none"])
    /\ UNCHANGED <<shouldAutoReconnect, urlOk, pendingMap, reqs, waitMap,
                   waiters, messagesData, healthPingTimeoutId, pingTimers,
                   streamingTaskHandlers, nHandlers, transportLog, cbLog, inLog, cap,
                   cmd, sendTimer,
                   sandboxVars>>

\* sendHealthPing, the callback of the ping timer: when connected send a
\* HealthPing and re-arm; otherwise the cycle ends (the stale id is kept)
HealthPing ==
    /\ healthPingTimeoutId = "armed"
    /\ IF connectionState = "connected"
       THEN /\ Len(reqs) < cap.reqs
            /\ DoSend("HealthPing")
            /\ UNCHANGED <<healthPingTimeoutId, pingTimers>>
       ELSE /\ healthPingTimeoutId' = "stale"
            /\ pingTimers' = pingTimers - 1
            /\ UNCHANGED <<reqs, pendingMap, messagesData, transportLog>>
    /\ UNCHANGED <<connectionState, ws, shouldAutoReconnect, urlOk, sockHistory, socks,
                   waitMap, waiters, streamingTaskHandlers, nHandlers, cbLog, inLog, cap,
                   connectReturned, cmd, sendTimer,
                   sandboxVars>>

\* the inbound messages the server may send
StreamMsgs ==
    [eventType : {StreamType}, messageId : cap.streamIds, uniqueTaskId : cap.tasks,
     type : {"io"}, stdout : BOOLEAN, stderr : BOOLEAN,
     code : {<<>>}, error : {<<>>}]
    \cup [eventType : {StreamType}, messageId : cap.streamIds, uniqueTaskId : cap.tasks,
          type : {"close"}, stdout : {FALSE}, stderr : {FALSE},
          code : cap.codes, error : cap.errors]

ReplyMsgs ==
    [eventType : cap.types, messageId : 0 .. Len(reqs), uniqueTaskId : cap.replyTasks,
     type : {"none"}, stdout : {FALSE}, stderr : {FALSE},
     code : {<<>>}, error : {<<>>}]

\* an onMessage that leaves the handler registered after its 'close' event
OnStreamEvent_KeepHandler(msg) ==
    LET h == streamingTaskHandlers[msg.uniqueTaskId]
        n == Len(inLog) + 1
        out == IF msg.stdout THEN <<[h |-> h, cb |-> "onStdout", n |-> n]>> ELSE <<>>
        err == IF msg.stderr THEN <<[h |-> h, cb |-> "onStderr", n |-> n]>> ELSE <<>>
    IN  /\ inLog' = Append(inLog, [msg |-> msg, h |-> h])
        /\ IF h = Null
           THEN UNCHANGED cbLog
           ELSE IF msg.type = "io"
           THEN cbLog' = cbLog \o out \o err
           ELSE cbLog' = Append(cbLog, [h |-> h, cb |-> "onClose", n |-> n])
        /\ UNCHANGED <<pendingMap, reqs, waitMap, waiters, streamingTaskHandlers>>

\* onMessage, the streaming branch: the callbacks of the task's handler
\* (entries <<handler, callback, number of the event>>); 'close' deregisters
OnStreamEvent(msg) ==
    LET h == streamingTaskHandlers[msg.uniqueTaskId]
        n == Len(inLog) + 1
        out == IF msg.stdout THEN <<[h |-> h, cb |-> "onStdout", n |-> n]>> ELSE <<>>
        err == IF msg.stderr THEN <<[h |-> h, cb |-> "onStderr", n |-> n]>> ELSE <<>>
    IN  /\ inLog' = Append(inLog, [msg |-> msg, h |-> h])
        /\ IF h = Null
           THEN UNCHANGED <<cbLog, streamingTaskHandlers>>
           ELSE IF msg.type = "io"
           THEN /\ cbLog' = cbLog \o out \o err
                /\ UNCHANGED streamingTaskHandlers
           ELSE /\ cbLog' = Append(cbLog, [h |-> h, cb |-> "onClose", n |-> n])
                /\ streamingTaskHandlers' =
                       [streamingTaskHandlers EXCEPT ![msg.uniqueTaskId] = Null]
        /\ UNCHANGED <<pendingMap, reqs, waitMap, waiters>>

\* the waiter branch of onMessage
OnEvent(msg) ==
    IF msg.eventType \in DOMAIN waitMap /\ waitMap[msg.eventType] # Null
    THEN /\ waiters' = [waiters EXCEPT
                        ![waitMap[msg.eventType]].timer =
                            IF @ = "armed" THEN "cleared" ELSE @,
                        ![waitMap[msg.eventType]].p = Resolve(@, msg)]
         /\ waitMap' = [waitMap EXCEPT ![msg.eventType] = Null]
    ELSE UNCHANGED <<waitMap, waiters>>

\* an onMessage that settles a pending request without clearing its timer
OnReply_NoClearTimeout(msg) ==
    /\ IF msg.messageId \in pendingMap
       THEN /\ reqs' = [reqs EXCEPT ![msg.messageId].p = Resolve(@, msg)]
            /\ pendingMap' = pendingMap \ {msg.messageId}
            /\ UNCHANGED <<waitMap, waiters>>
       ELSE /\ OnEvent(msg)
            /\ UNCHANGED <<reqs, pendingMap>>
    /\ UNCHANGED <<cbLog, streamingTaskHandlers, inLog>>

\* the oldest pending request
Oldest == CHOOSE i \in pendingMap : \A j \in pendingMap : i <= j

\* an onMessage that takes a response to answer the oldest pending request
OnReply_InOrder(msg) ==
    /\ IF msg.messageId # Null /\ pendingMap # {}
       THEN /\ reqs' = [reqs EXCEPT
                           ![Oldest].timer = IF @ = "armed" THEN "cleared" ELSE @,
                           ![Oldest].p = Resolve(@, msg)]
            /\ pendingMap' = pendingMap \ {Oldest}
            /\ UNCHANGED <<waitMap, waiters>>
       ELSE /\ OnEvent(msg)
            /\ UNCHANGED <<reqs, pendingMap>>
    /\ UNCHANGED <<cbLog, streamingTaskHandlers, inLog>>

\* an onMessage that goes on to the waiter of the event type after it has
\* settled the pending request
OnReply_FallThrough(msg) ==
    /\ IF msg.messageId \in pendingMap
       THEN /\ reqs' = [reqs EXCEPT
                           ![msg.messageId].timer = IF @ = "armed" THEN "cleared" ELSE @,
                           ![msg.messageId].p = Resolve(@, msg)]
            /\ pendingMap' = pendingMap \ {msg.messageId}
            /\ OnEvent(msg)
       ELSE /\ OnEvent(msg)
            /\ UNCHANGED <<reqs, pendingMap>>
    /\ UNCHANGED <<cbLog, streamingTaskHandlers, inLog>>

\* onMessage, the other branch: the pending request of the messageId, else the
\* waiter of the event type, else nothing
OnReply(msg) ==
    /\ IF msg.messageId \in pendingMap
       THEN /\ reqs' = [reqs EXCEPT
                           ![msg.messageId].timer = IF @ = "armed" THEN "cleared" ELSE @,
                           ![msg.messageId].p = Resolve(@, msg)]
            /\ pendingMap' = pendingMap \ {msg.messageId}
            /\ UNCHANGED <<waitMap, waiters>>
       ELSE /\ OnEvent(msg)
            /\ UNCHANGED <<reqs, pendingMap>>
    /\ UNCHANGED <<cbLog, streamingTaskHandlers, inLog>>

\* the handler runStreamingCommand() registers, called by onMessage with
\* event number n: stdout += data, stderr += data, and
\* onClose: exitCode => resolve({stdout, stderr, exitCode})
CommandHandler(c, msg, n) ==
    IF msg.type = "io"
    THEN [c EXCEPT !.stdout = IF msg.stdout THEN Append(@, n) ELSE @,
                   !.stderr = IF msg.stderr THEN Append(@, n) ELSE @]
    ELSE [c EXCEPT !.pc = "resolved",
                   !.resolves = @ + 1,
                   !.closeN = n,
                   !.result = IF c.resolves = 0
                              THEN [stdout |-> c.stdout, stderr |-> c.stderr,
                                    exitCode |-> msg.code]
                              ELSE @]

\* onMessage(rawData); a streaming event whose handler is the command's runs
\* the command's closure; cmd.startN keeps how many streaming events had
\* arrived when the reply to the command's request was dispatched
OnMessage(msg) ==
    IF msg.eventType = StreamType
    THEN /\ OnStreamEvent(msg)
         /\ cmd' = IF cmd.h # Null /\ streamingTaskHandlers[msg.uniqueTaskId] = cmd.h
                   THEN CommandHandler(cmd, msg, Len(inLog) + 1)
                   ELSE cmd
    ELSE /\ OnReply(msg)
         /\ cmd' = IF cmd.pc = "starting" /\ msg.messageId = cmd.req
                      /\ msg.messageId \in pendingMap
                   THEN [cmd EXCEPT !.startN = Len(inLog)]
                   ELSE cmd

\* the transport delivers a message on socket s
SockMessage(s, msg) ==
    /\ s \in DOMAIN socks
    /\ socks[s].readyState = "OPEN"
    /\ socks[s].listeners
    /\ msg.eventType = StreamType => Len(inLog) < cap.stream
    /\ OnMessage(msg)
    /\ UNCHANGED <<connectionState, ws, shouldAutoReconnect, urlOk, sockHistory, socks,
                   messagesData, healthPingTimeoutId, pingTimers, nHandlers, transportLog, cap,
                   connectReturned, sendTimer,
                   sandboxVars>>

NotConnectedError == "Not connected to sandbox. Please call create() or fromSnippet() first."

\* Sandbox.runStreamingCommand() on the wrapper followed in detail, up to its
\* await: the isConnected() check, then this.ws.send({RunLongRunningCommand})
RunStreamingCommand ==
    /\ cap.cmd
    /\ cmd.pc = "idle"
    /\ IF connectionState = "connected"
       THEN /\ Len(reqs) < cap.reqs
            /\ DoSend("RunLongRunningCommand")
            /\ cmd' = [cmd EXCEPT !.pc = "starting", !.req = Len(reqs) + 1]
       ELSE /\ cmd' = [cmd EXCEPT !.pc = "failed", !.err = NotConnectedError]
            /\ UNCHANGED <<reqs, pendingMap, messagesData, transportLog>>
    /\ UNCHANGED <<connectionState, ws, shouldAutoReconnect, urlOk, sockHistory, socks,
                   waitMap, waiters, healthPingTimeoutId, pingTimers,
                   streamingTaskHandlers, nHandlers, cbLog, inLog, cap,
                   connectReturned, sendTimer,
                   sandboxVars>>

\* runStreamingCommand() after its await: send() rejected, it throws; else
\* the handler of the reply's uniqueTaskId is registered inside the promise
\* it returns (cmd.regN keeps how many streaming events had arrived by then)
RunStreamingCommandResume ==
    /\ cmd.pc = "starting"
    /\ reqs[cmd.req].p.state # "pending"
    /\ LET p == reqs[cmd.req].p
       IN  IF p.state = "rejected"
           THEN /\ cmd' = [cmd EXCEPT !.pc = "failed", !.err = p.reason]
                /\ UNCHANGED <<streamingTaskHandlers, nHandlers>>
           ELSE IF p.value.eventType = "RunLongRunningCommand"
           THEN /\ nHandlers' = nHandlers + 1
                /\ streamingTaskHandlers' =
                       [streamingTaskHandlers EXCEPT ![p.value.uniqueTaskId] = nHandlers + 1]
                /\ cmd' = [cmd EXCEPT !.pc = "streaming", !.h = nHandlers + 1,
                                      !.task = p.value.uniqueTaskId,
                                      !.regN = Len(inLog)]
           ELSE /\ cmd' = [cmd EXCEPT !.pc = "failed",
                                      !.err = "Unexpected response event type"]
                /\ UNCHANGED <<streamingTaskHandlers, nHandlers>>
    /\ UNCHANGED <<connectionState, ws, shouldAutoReconnect, urlOk, sockHistory, socks,
                   pendingMap, reqs, waitMap, waiters, messagesData,
                   healthPingTimeoutId, pingTimers, transportLog, cbLog, inLog, cap,
                   connectReturned, sendTimer,
                   sandboxVars>>

\* a Sandbox.disconnect() that leaves the wrapper's auto-reconnect enabled
SandboxDisconnectOnWrapper_KeepReconnect ==
    /\ cap.cmd
    /\ ~disconnecting /\ ~tornDown
    /\ connectionState = "connected"
    /\ disconnecting' = TRUE
    /\ UNCHANGED shouldAutoReconnect
    /\ UNCHANGED <<connectionState, ws, urlOk, sockHistory, socks, pendingMap, reqs,
                   waitMap, waiters, messagesData, healthPingTimeoutId, pingTimers,
                   streamingTaskHandlers, nHandlers, transportLog, cbLog, inLog, cap,
                   connectReturned, cmd, sandboxWs, wrappers, calls, teardownWs,
                   playgroundSnippetId, playgroundSessionId, containerDetails,
                   tornDown, lastOp, api, sendTimer>>

\* Sandbox.disconnect() on the wrapper followed in detail, up to its await:
\* the isConnected() check (a call that throws changes nothing), then
\* this.ws.disableWsAutoReconnect() and the fetch of /disconnect-sandbox
SandboxDisconnectOnWrapper ==
    /\ cap.cmd
    /\ ~disconnecting /\ ~tornDown
    /\ connectionState = "connected"
    /\ disconnecting' = TRUE
    /\ shouldAutoReconnect' = FALSE
    /\ UNCHANGED <<connectionState, ws, urlOk, sockHistory, socks, pendingMap, reqs,
                   waitMap, waiters, messagesData, healthPingTimeoutId, pingTimers,
                   streamingTaskHandlers, nHandlers, transportLog, cbLog, inLog, cap,
                   connectReturned, cmd, sandboxWs, wrappers, calls, teardownWs,
                   playgroundSnippetId, playgroundSessionId, containerDetails,
                   tornDown, lastOp, api, sendTimer>>

\* Sandbox.disconnect() after its await, the fetch resolved:
\* this.ws.disconnect(), then this.ws = null
SandboxDisconnectOnWrapperResume ==
    /\ cap.cmd
    /\ disconnecting
    /\ disconnecting' = FALSE
    /\ tornDown' = TRUE
    /\ socks' = CleanSocks(socks)
    /\ CleanDirtyWebSocketIfPresent
    /\ sockHistory' = IF cap.history /\ sockHistory # <<>>
                      THEN [sockHistory EXCEPT ![Len(sockHistory)].disconnected = TRUE]
                      ELSE sockHistory
    /\ UNCHANGED <<connectionState, shouldAutoReconnect, urlOk,
                   streamingTaskHandlers, nHandlers, transportLog, cbLog, inLog, cap,
                   connectReturned, cmd, sandboxWs, wrappers, calls, teardownWs,
                   playgroundSnippetId, playgroundSessionId, containerDetails, lastOp,
                   api, sendTimer>>

\* Sandbox.disconnect() after its await, the fetch rejected: disconnect()
\* rejects and the wrapper is neither closed nor released
SandboxDisconnectOnWrapperFails ==
    /\ cap.cmd
    /\ disconnecting
    /\ disconnecting' = FALSE
    /\ UNCHANGED <<connectionState, ws, shouldAutoReconnect, urlOk, sockHistory, socks,
                   pendingMap, reqs, waitMap, waiters, messagesData,
                   healthPingTimeoutId, pingTimers, streamingTaskHandlers, nHandlers,
                   transportLog, cbLog, inLog, cap, connectReturned, cmd,
                   sandboxWs, wrappers, calls, teardownWs, playgroundSnippetId,
                   playgroundSessionId, containerDetails, tornDown, lastOp, api, sendTimer>>

\* ------------------------------------------------------------ the Sandbox
\* The Sandbox object and every SandboxWebSocket it creates, each wrapper
\* reduced to its connection: state, current socket, auto-reconnect flag,
\* pending backoff, and the promise of the connect() the Sandbox awaits.
\* A create() / fromSnippet() call is a record: op, pc (the await it is at),
\* w (the wrapper it made or waits on), polls (poll-session-details calls it
\* issued), err (the error it threw), git (whether gitRepoUrl was given).
\* Identifiers returned by the API for call c are modelled as c.

\* new SandboxWebSocket({url, token}) followed by connect() with a valid URL
NewWrapper ==
    [connectionState |-> "connecting", readyState |-> "CONNECTING", listeners |-> TRUE,
     shouldAutoReconnect |-> TRUE, backoff |-> FALSE, connectP |-> "pending"]

\* Sandbox.isConnected(): this.ws?.isConnected() ?? false
SandboxIsConnected ==
    sandboxWs # Null /\ wrappers[sandboxWs].connectionState = "connected"

\* Math.ceil(this.timeout / interval): the polls one call may issue
MaxPollCalls == (timeout + interval - 1) \div interval

\* the error thrown for an attention-needed answer of start-session
AttentionError(type) ==
    CASE type = "cannot-get-new" -> "Cannot get new session"
      [] type = "can-terminate-and-get-new" -> "Can terminate and get new session"
      [] type = "can-create-account-and-get-new" -> "Can create account and get new session"

AttentionTypes == {"cannot-get-new", "can-terminate-and-get-new",
                   "can-create-account-and-get-new"}

\* whether every create() / fromSnippet() call made so far has returned
NoCallInProgress == \A c \in DOMAIN calls : calls[c].pc \in {"done", "failed"}

\* create() up to its first await: the isConnected() check, then
\* api.createPlaygroundSnippet
Create ==
    /\ Len(calls) < cap.calls
    /\ ~SandboxIsConnected
    /\ \E git \in cap.git :
           calls' = Append(calls, [op |-> "create", pc |-> "createSnippet", w |-> Null,
                                   polls |-> 0, err |-> "none", git |-> git])
    /\ tornDown' = FALSE
    /\ UNCHANGED <<sandboxWs, wrappers, disconnecting, teardownWs, playgroundSnippetId,
                   playgroundSessionId, containerDetails, lastOp, wrapperVars, api, cap>>

\* fromSnippet() up to its first await: the isConnected() check, then
\* api.startPlaygroundSession
FromSnippet ==
    /\ Len(calls) < cap.calls
    /\ ~SandboxIsConnected
    /\ calls' = Append(calls, [op |-> "fromSnippet", pc |-> "startSession", w |-> Null,
                               polls |-> 0, err |-> "none", git |-> FALSE])
    /\ tornDown' = FALSE
    /\ UNCHANGED <<sandboxWs, wrappers, disconnecting, teardownWs, playgroundSnippetId,
                   playgroundSessionId, containerDetails, lastOp, wrapperVars, api, cap>>

\* an awaited API call rejects (transport or validation error): the call throws
ProvisionFails(c) ==
    /\ calls[c].pc \in {"createSnippet", "startSession", "poll"}
    /\ calls' = [calls EXCEPT ![c].pc = "failed", ![c].err = "api"]
    /\ UNCHANGED <<sandboxWs, wrappers, disconnecting, teardownWs, playgroundSnippetId,
                   playgroundSessionId, containerDetails, tornDown, lastOp,
                   wrapperVars, api, cap>>

\* create(): the snippet is created, its id stored, api.startPlaygroundSession
SnippetCreated(c) ==
    /\ calls[c].pc = "createSnippet"
    /\ playgroundSnippetId' = c
    /\ calls' = [calls EXCEPT ![c].pc = "startSession"]
    /\ UNCHANGED <<sandboxWs, wrappers, disconnecting, teardownWs, playgroundSessionId,
                   containerDetails, tornDown, lastOp, wrapperVars, api, cap>>

\* start-session answers 'attention-needed' and the session id is stored
\* all the same before the call throws
AttentionNeeded_AssignFirst(c, type) ==
    /\ calls[c].pc = "startSession"
    /\ playgroundSessionId' = c
    /\ calls' = [calls EXCEPT ![c].pc = "failed", ![c].err = AttentionError(type)]
    /\ UNCHANGED <<sandboxWs, wrappers, disconnecting, teardownWs, playgroundSnippetId,
                   containerDetails, tornDown, lastOp, wrapperVars, api, cap>>

\* start-session answers 'attention-needed': the call throws the error of the
\* attention type
AttentionNeeded(c, type) ==
    /\ calls[c].pc = "startSession"
    /\ calls' = [calls EXCEPT ![c].pc = "failed", ![c].err = AttentionError(type)]
    /\ UNCHANGED <<sandboxWs, wrappers, disconnecting, teardownWs, playgroundSnippetId,
                   playgroundSessionId, containerDetails, tornDown, lastOp,
                   wrapperVars, api, cap>>

\* start-session answers ok: the session id is stored and the first poll of
\* the loop is issued
SessionStarted(c) ==
    /\ calls[c].pc = "startSession"
    /\ playgroundSessionId' = c
    /\ calls' = [calls EXCEPT ![c].pc = "poll", ![c].polls = 1]
    /\ UNCHANGED <<sandboxWs, wrappers, disconnecting, teardownWs, playgroundSnippetId,
                   containerDetails, tornDown, lastOp, wrapperVars, api, cap>>

\* the poll answers 'still provisioning': the call sleeps for the interval
PollWaiting(c) ==
    /\ calls[c].pc = "poll"
    /\ calls[c].polls <= cap.slow
    /\ calls' = [calls EXCEPT ![c].pc = "sleep"]
    /\ UNCHANGED <<sandboxWs, wrappers, disconnecting, teardownWs, playgroundSnippetId,
                   playgroundSessionId, containerDetails, tornDown, lastOp,
                   wrapperVars, api, cap>>

\* a polling loop that runs while i <= max
Sleep_OneMore(c) ==
    /\ calls[c].pc = "sleep"
    /\ calls' = IF calls[c].polls <= MaxPollCalls
                THEN [calls EXCEPT ![c].pc = "poll", ![c].polls = @ + 1]
                ELSE [calls EXCEPT ![c].pc = "failed", ![c].err = "Provisioning timeout"]
    /\ UNCHANGED <<sandboxWs, wrappers, disconnecting, teardownWs, playgroundSnippetId,
                   playgroundSessionId, containerDetails, tornDown, lastOp,
                   wrapperVars, api, cap>>

\* the interval elapsed: the next poll if i < max, else 'Provisioning timeout'
Sleep(c) ==
    /\ calls[c].pc = "sleep"
    /\ calls' = IF calls[c].polls < MaxPollCalls
                THEN [calls EXCEPT ![c].pc = "poll", ![c].polls = @ + 1]
                ELSE [calls EXCEPT ![c].pc = "failed", ![c].err = "Provisioning timeout"]
    /\ UNCHANGED <<sandboxWs, wrappers, disconnecting, teardownWs, playgroundSnippetId,
                   playgroundSessionId, containerDetails, tornDown, lastOp,
                   wrapperVars, api, cap>>

\* the poll answers ready without container details: no wrapper is made;
\* create() with a gitRepoUrl goes on to the clone
NoContainer(c) ==
    /\ calls[c].pc = "poll"
    /\ containerDetails' = Null
    /\ calls' = [calls EXCEPT ![c].pc = IF calls[c].git THEN "cloning" ELSE "done"]
    /\ UNCHANGED <<sandboxWs, wrappers, disconnecting, teardownWs, playgroundSnippetId,
                   playgroundSessionId, tornDown, lastOp, wrapperVars, api, cap>>

\* the poll answers ready with container details: they are stored,
\* this.ws = new SandboxWebSocket(...), and this.ws.connect() up to its await
AssignWrapper(c) ==
    /\ calls[c].pc = "poll"
    /\ Len(wrappers) < cap.wrappers
    /\ containerDetails' = c
    /\ wrappers' = Append(wrappers, NewWrapper)
    /\ sandboxWs' = Len(wrappers) + 1
    /\ calls' = [calls EXCEPT ![c].pc = "connecting", ![c].w = Len(wrappers) + 1]
    /\ UNCHANGED <<disconnecting, teardownWs, playgroundSnippetId, playgroundSessionId,
                   tornDown, lastOp, wrapperVars, api, cap>>

\* the awaited connect() settles: rejected, the call throws; resolved, the
\* call goes on to this.ws.waitForNextFutureWebSocketEvent('ContainerServerReady')
\* on whatever wrapper this.ws holds by now
ConnectReturns(c) ==
    /\ calls[c].pc = "connecting"
    /\ wrappers[calls[c].w].connectP # "pending"
    /\ calls' = IF wrappers[calls[c].w].connectP = "rejected"
                THEN [calls EXCEPT ![c].pc = "failed",
                                   ![c].err = "Failed to connect to WebSocket"]
                ELSE IF sandboxWs = Null
                THEN [calls EXCEPT ![c].pc = "failed", ![c].err = "TypeError"]
                ELSE [calls EXCEPT ![c].pc = "waiting", ![c].w = sandboxWs]
    /\ UNCHANGED <<sandboxWs, wrappers, disconnecting, teardownWs, playgroundSnippetId,
                   playgroundSessionId, containerDetails, tornDown, lastOp,
                   wrapperVars, api, cap>>

\* ContainerServerReady arrives on the wrapper the call waits on; create()
\* with a gitRepoUrl goes on to the clone
ServerReady(c) ==
    /\ calls[c].pc = "waiting"
    /\ wrappers[calls[c].w].readyState = "OPEN"
    /\ wrappers[calls[c].w].listeners
    /\ calls' = [calls EXCEPT ![c].pc = IF calls[c].git THEN "cloning" ELSE "done"]
    /\ UNCHANGED <<sandboxWs, wrappers, disconnecting, teardownWs, playgroundSnippetId,
                   playgroundSessionId, containerDetails, tornDown, lastOp,
                   wrapperVars, api, cap>>

\* the wait is rejected: its 10000 ms timeout, a close, or a replacing wait
ReadyFails(c) ==
    /\ calls[c].pc = "waiting"
    /\ calls' = [calls EXCEPT ![c].pc = "failed", ![c].err = "wait"]
    /\ UNCHANGED <<sandboxWs, wrappers, disconnecting, teardownWs, playgroundSnippetId,
                   playgroundSessionId, containerDetails, tornDown, lastOp,
                   wrapperVars, api, cap>>

\* create() with a gitRepoUrl: runStreamingCommand('git clone') resolves
CloneDone(c) ==
    /\ calls[c].pc = "cloning"
    /\ SandboxIsConnected
    /\ calls' = [calls EXCEPT ![c].pc = "done"]
    /\ UNCHANGED <<sandboxWs, wrappers, disconnecting, teardownWs, playgroundSnippetId,
                   playgroundSessionId, containerDetails, tornDown, lastOp,
                   wrapperVars, api, cap>>

\* create() with a gitRepoUrl: runStreamingCommand throws (not connected, or
\* its start request is rejected)
CloneFails(c) ==
    /\ calls[c].pc = "cloning"
    /\ calls' = [calls EXCEPT ![c].pc = "failed", ![c].err = "clone"]
    /\ UNCHANGED <<sandboxWs, wrappers, disconnecting, teardownWs, playgroundSnippetId,
                   playgroundSessionId, containerDetails, tornDown, lastOp,
                   wrapperVars, api, cap>>

\* cleanDirtyWebSocketIfPresent() of a wrapper: listeners removed, the socket
\* closed only if OPEN
WrapperClean(r) ==
    [r EXCEPT !.listeners = FALSE,
              !.readyState = IF r.readyState = "OPEN" THEN "CLOSED" ELSE r.readyState]

\* onClose() of a wrapper up to its await
WrapperOnClose(r) ==
    [WrapperClean([r EXCEPT !.readyState = "CLOSED"]) EXCEPT
        !.connectionState = "disconnected",
        !.backoff = r.shouldAutoReconnect]

\* the transport opens the socket of wrapper w: onOpen(), connect() resolves
WrapperOpen(w) ==
    /\ wrappers[w].readyState = "CONNECTING"
    /\ wrappers' = [wrappers EXCEPT ![w] =
           IF wrappers[w].listeners
           THEN [wrappers[w] EXCEPT
                    !.readyState = "OPEN",
                    !.connectionState = "connected",
                    !.connectP = IF @ = "pending" THEN "resolved" ELSE @]
           ELSE [wrappers[w] EXCEPT !.readyState = "OPEN"]]
    /\ UNCHANGED <<sandboxWs, calls, disconnecting, teardownWs, playgroundSnippetId,
                   playgroundSessionId, containerDetails, tornDown, lastOp,
                   wrapperVars, api, cap>>

\* the transport fails to open the socket of wrapper w: 'error' rejects the
\* connect() in progress, 'close' runs onClose()
WrapperFail(w) ==
    /\ wrappers[w].readyState = "CONNECTING"
    /\ wrappers' = [wrappers EXCEPT ![w] =
           IF wrappers[w].listeners
           THEN [WrapperOnClose(wrappers[w]) EXCEPT
                    !.connectP = IF @ = "pending" THEN "rejected" ELSE @]
           ELSE [wrappers[w] EXCEPT !.readyState = "CLOSED"]]
    /\ UNCHANGED <<sandboxWs, calls, disconnecting, teardownWs, playgroundSnippetId,
                   playgroundSessionId, containerDetails, tornDown, lastOp,
                   wrapperVars, api, cap>>

\* the transport closes the open socket of wrapper w
WrapperClose(w) ==
    /\ wrappers[w].readyState = "OPEN"
    /\ wrappers' = [wrappers EXCEPT ![w] =
           IF wrappers[w].listeners
           THEN WrapperOnClose(wrappers[w])
           ELSE [wrappers[w] EXCEPT !.readyState = "CLOSED"]]
    /\ UNCHANGED <<sandboxWs, calls, disconnecting, teardownWs, playgroundSnippetId,
                   playgroundSessionId, containerDetails, tornDown, lastOp,
                   wrapperVars, api, cap>>

\* onClose() of wrapper w after its 2000 ms wait: connect()
WrapperReconnect(w) ==
    /\ wrappers[w].backoff
    /\ wrappers' = [wrappers EXCEPT ![w] =
           IF wrappers[w].connectionState = "connected"
           THEN [wrappers[w] EXCEPT !.backoff = FALSE]
           ELSE [wrappers[w] EXCEPT
                    !.backoff = FALSE,
                    !.connectionState = "connecting",
                    !.readyState = "CONNECTING",
                    !.listeners = TRUE]]
    /\ UNCHANGED <<sandboxWs, calls, disconnecting, teardownWs, playgroundSnippetId,
                   playgroundSessionId, containerDetails, tornDown, lastOp,
                   wrapperVars, api, cap>>

\* a disconnect() that issues the fetch without disabling auto-reconnect first
SandboxDisconnect_KeepReconnect ==
    /\ ~disconnecting
    /\ SandboxIsConnected
    /\ disconnecting' = (containerDetails # Null)
    /\ teardownWs' = IF containerDetails # Null THEN sandboxWs ELSE Null
    /\ IF containerDetails # Null
       THEN UNCHANGED <<wrappers, sandboxWs, tornDown>>
       ELSE /\ wrappers' = [wrappers EXCEPT ![sandboxWs] =
                              WrapperClean([@ EXCEPT !.shouldAutoReconnect = FALSE])]
            /\ sandboxWs' = Null
            /\ tornDown' = TRUE
    /\ UNCHANGED <<calls, playgroundSnippetId, playgroundSessionId, containerDetails,
                   lastOp, wrapperVars, api, cap>>

\* Sandbox.disconnect() up to its await: the isConnected() check,
\* disableWsAutoReconnect(), and the fetch of /disconnect-sandbox; without
\* container details there is no fetch and the call runs to its end
SandboxDisconnect ==
    /\ ~disconnecting
    /\ SandboxIsConnected
    /\ disconnecting' = (containerDetails # Null)
    /\ teardownWs' = IF containerDetails # Null THEN sandboxWs ELSE Null
    /\ IF containerDetails # Null
       THEN /\ wrappers' = [wrappers EXCEPT ![sandboxWs].shouldAutoReconnect = FALSE]
            /\ UNCHANGED <<sandboxWs, tornDown>>
       ELSE /\ wrappers' = [wrappers EXCEPT ![sandboxWs] =
                              WrapperClean([@ EXCEPT !.shouldAutoReconnect = FALSE])]
            /\ sandboxWs' = Null
            /\ tornDown' = TRUE
    /\ UNCHANGED <<calls, playgroundSnippetId, playgroundSessionId, containerDetails,
                   lastOp, wrapperVars, api, cap>>

\* Sandbox.disconnect() after the fetch: this.ws?.disconnect(); this.ws = null
SandboxDisconnectResume ==
    /\ disconnecting
    /\ disconnecting' = FALSE
    /\ teardownWs' = Null
    /\ wrappers' = IF sandboxWs = Null THEN wrappers
                   ELSE [wrappers EXCEPT ![sandboxWs] = WrapperClean(@)]
    /\ sandboxWs' = Null
    /\ tornDown' = TRUE
    /\ UNCHANGED <<calls, playgroundSnippetId, playgroundSessionId, containerDetails,
                   lastOp, wrapperVars, api, cap>>

\* Sandbox.disconnect(): the fetch rejects and disconnect() throws there
SandboxDisconnectFails ==
    /\ disconnecting
    /\ disconnecting' = FALSE
    /\ teardownWs' = Null
    /\ UNCHANGED <<sandboxWs, wrappers, calls, playgroundSnippetId, playgroundSessionId,
                   containerDetails, tornDown, lastOp, wrapperVars, api, cap>>

\* the session operations, and disconnect() on a Sandbox that is not connected
Ops == {"runCommand", "runStreamingCommand", "getFile", "writeFile", "exposePort",
        "getPublicUrls", "quickRun", "disconnect"}

\* what a session operation called with valid arguments does first: the
\* error it throws, "network" when it goes on to a request over HTTP or the
\* wrapper, "returned" when it returns a value at once
OpOutcome(op) ==
    CASE op = "getPublicUrls" ->
             IF containerDetails # Null THEN "returned" ELSE "No container found"
      [] op = "exposePort" ->
             IF ~SandboxIsConnected THEN NotConnectedError
             ELSE IF containerDetails # Null THEN "returned" ELSE NotConnectedError
      [] op \in {"getFile", "writeFile"} ->
             IF ~SandboxIsConnected THEN NotConnectedError
             ELSE IF containerDetails # Null THEN "network" ELSE "No container found"
      [] op \in {"runCommand", "runStreamingCommand"} ->
             IF ~SandboxIsConnected THEN NotConnectedError
             ELSE IF sandboxWs # Null THEN "network" ELSE "Not connected"
      [] op = "quickRun" ->
             IF ~SandboxIsConnected THEN NotConnectedError ELSE "network"
      [] op = "disconnect" -> NotConnectedError

\* a session operation is called; lastOp keeps what it did first, and whether
\* the Sandbox was torn down (disconnect() completed, no create() or
\* fromSnippet() called since)
SessionOp(op) ==
    /\ cap.ops
    /\ op = "disconnect" => ~SandboxIsConnected
    /\ lastOp' = [op |-> op, outcome |-> OpOutcome(op), tornDown |-> tornDown,
                  arg |-> <<>>, sent |-> <<>>]
    /\ UNCHANGED <<sandboxWs, wrappers, calls, disconnecting, teardownWs, playgroundSnippetId,
                   playgroundSessionId, containerDetails, tornDown, wrapperVars, api, cap>>

\* exposePort(port) called with any number a JavaScript caller may pass: the
\* 'not connected' error, else the URL of that port ("returned")
ExposePortOutcome(port) ==
    IF ~SandboxIsConnected THEN NotConnectedError
    ELSE IF containerDetails # Null THEN "returned" ELSE NotConnectedError

ExposePort(port) ==
    /\ port \in cap.ports
    /\ lastOp' = [op |-> "exposePort", outcome |-> ExposePortOutcome(port),
                  tornDown |-> tornDown, arg |-> <<port>>, sent |-> <<>>]
    /\ UNCHANGED <<sandboxWs, wrappers, calls, disconnecting, teardownWs, playgroundSnippetId,
                   playgroundSessionId, containerDetails, tornDown, wrapperVars, api, cap>>

\* A path is a sequence of pieces of text; the string is their concatenation.
\* No piece is a prefix of another and '~' and '/home/damner' are pieces, so
\* path.startsWith('~') and path.startsWith('/home/damner') look at the first
\* piece only.
Home == "/home/damner"
Pieces == {"~", Home, "/code", "/f", "/etc"}
\* the pieces the paths given to getFile / writeFile are made of
InputPieces == {"~", Home, "/f", "/etc"}

InvalidPath == "Invalid path"

\* normalizePath(path) of the earlier revision: '~' expanded to
\* '/home/damner/code' (its prefix check is not modelled)
NormalizePath_Code(path) ==
    IF path # <<>> /\ path[1] = "~"
    THEN [ok |-> TRUE, path |-> <<Home, "/code">> \o Tail(path)]
    ELSE IF path # <<>> /\ path[1] = Home
    THEN [ok |-> TRUE, path |-> path]
    ELSE [ok |-> FALSE, path |-> <<>>]

\* normalizePath(path): path.replace('~', '/home/damner') replaces the first
\* '~', which is the leading one; a path with the home prefix is kept; any
\* other path throws
NormalizePath(path) ==
    IF path # <<>> /\ path[1] = "~"
    THEN [ok |-> TRUE, path |-> <<Home>> \o Tail(path)]
    ELSE IF path # <<>> /\ path[1] = Home
    THEN [ok |-> TRUE, path |-> path]
    ELSE [ok |-> FALSE, path |-> <<>>]

\* a getFile / writeFile that validates nothing and sends the path as given
FileOp_NoValidation(path) ==
    IF ~SandboxIsConnected
    THEN [outcome |-> NotConnectedError, sent |-> <<>>]
    ELSE IF containerDetails # Null
    THEN [outcome |-> "network", sent |-> path]
    ELSE [outcome |-> "No container found", sent |-> <<>>]

\* getFile(path) / writeFile({path, content}) up to the fetch: the
\* isConnected() check, normalizePath, then the request with 'full-path' set
\* to the normalized path when container details exist
FileOp(path) ==
    IF ~SandboxIsConnected
    THEN [outcome |-> NotConnectedError, sent |-> <<>>]
    ELSE IF ~NormalizePath(path).ok
    THEN [outcome |-> InvalidPath, sent |-> <<>>]
    ELSE IF containerDetails # Null
    THEN [outcome |-> "network", sent |-> NormalizePath(path).path]
    ELSE [outcome |-> "No container found", sent |-> <<>>]

GetFile(path) ==
    /\ path \in cap.paths
    /\ lastOp' = [op |-> "getFile", outcome |-> FileOp(path).outcome,
                  tornDown |-> tornDown, arg |-> path, sent |-> FileOp(path).sent]
    /\ UNCHANGED <<sandboxWs, wrappers, calls, disconnecting, teardownWs, playgroundSnippetId,
                   playgroundSessionId, containerDetails, tornDown, wrapperVars, api, cap>>

WriteFile(path) ==
    /\ path \in cap.paths
    /\ lastOp' = [op |-> "writeFile", outcome |-> FileOp(path).outcome,
                  tornDown |-> tornDown, arg |-> path, sent |-> FileOp(path).sent]
    /\ UNCHANGED <<sandboxWs, wrappers, calls, disconnecting, teardownWs, playgroundSnippetId,
                   playgroundSessionId, containerDetails, tornDown, wrapperVars, api, cap>>

NoOp == [op |-> "none", outcome |-> "none", tornDown |-> FALSE,
         arg |-> <<>>, sent |-> <<>>]

\* new Sandbox(): no wrapper, no call in progress
InitSandbox ==
    /\ sandboxWs = Null
    /\ wrappers = <<>>
    /\ calls = <<>>
    /\ disconnecting = FALSE
    /\ teardownWs = Null
    /\ playgroundSnippetId = Null
    /\ playgroundSessionId = Null
    /\ containerDetails = Null
    /\ tornDown = FALSE
    /\ lastOp = NoOp
    /\ api = NoApi

\* ---------------------------------------------------------- the ApiClient

\* the apiKey arguments: null, or a string as the sequence of its characters
ApiKeys == {<<"null">>, <<>>, <<" ">>, <<" ", " ">>, <<"k">>, <<" ", "k", " ">>}

\* String.prototype.trim(): the string without its leading and trailing blanks
RECURSIVE TrimStart(_)
TrimStart(str) ==
    IF str # <<>> /\ Head(str) = " " THEN TrimStart(Tail(str)) ELSE str

RECURSIVE TrimEnd(_)
TrimEnd(str) ==
    IF str # <<>> /\ str[Len(str)] = " "
    THEN TrimEnd(SubSeq(str, 1, Len(str) - 1))
    ELSE str

Trim(str) == TrimEnd(TrimStart(str))

\* what the backend may answer to the one request of a call: the fetch
\* rejects; a status that is not ok; a body that is not JSON; a body that is
\* not an array of envelopes; an empty array; an 'ok' envelope whose data does
\* not fit the output schema; an 'error' envelope with the 'school not found'
\* message or with another message; an 'ok' envelope with data
ApiReplies == {"network error", "not ok", "not json", "malformed", "empty array",
               "bad data", "error: school not found", "error: other", "ok"}

SchoolNotFound == "Fermion School not found! Please contact support@codedamn.com immediately!"

\* new ApiClient(apiKey): throws when the key is null or blank
NewApiClient(key) ==
    /\ cap.apiCalls > 0
    /\ api.pc = "none"
    /\ api' = IF key = <<"null">> \/ Trim(key) = <<>>
              THEN [api EXCEPT !.pc = "no client", !.key = key,
                               !.err = "API key is required"]
              ELSE [api EXCEPT !.pc = "ready", !.key = key]
    /\ UNCHANGED <<sandboxWs, wrappers, calls, disconnecting, teardownWs,
                   playgroundSnippetId, playgroundSessionId, containerDetails,
                   tornDown, lastOp, wrapperVars, cap>>

\* call(): inputSchema.parse(data) throws on data that does not fit; otherwise
\* one fetch is issued, which the backend will answer with reply
ApiCall(inputOk, reply) ==
    /\ api.pc \in {"ready", "returned", "failed"}
    /\ api.calls < cap.apiCalls
    /\ api' = IF inputOk
              THEN [api EXCEPT !.pc = "fetching", !.inputOk = TRUE, !.reply = reply,
                               !.calls = @ + 1, !.validCalls = @ + 1, !.sent = 1,
                               !.requests = @ + 1, !.err = "none", !.data = FALSE]
              ELSE [api EXCEPT !.pc = "failed", !.inputOk = FALSE, !.reply = reply,
                               !.calls = @ + 1, !.sent = 0, !.err = "ZodError",
                               !.data = FALSE]
    /\ UNCHANGED <<sandboxWs, wrappers, calls, disconnecting, teardownWs,
                   playgroundSnippetId, playgroundSessionId, containerDetails,
                   tornDown, lastOp, wrapperVars, cap>>

\* call() after 'await fetch': a rejection ends the call; a response that is
\* not ok throws; otherwise response.json() is awaited
ApiFetchSettles ==
    /\ api.pc = "fetching"
    /\ api' = CASE api.reply = "network error" ->
                       [api EXCEPT !.pc = "failed", !.err = "fetch failed"]
                [] api.reply = "not ok" ->
                       [api EXCEPT !.pc = "failed", !.err = "API request failed"]
                [] OTHER -> [api EXCEPT !.pc = "reading"]
    /\ UNCHANGED <<sandboxWs, wrappers, calls, disconnecting, teardownWs,
                   playgroundSnippetId, playgroundSessionId, containerDetails,
                   tornDown, lastOp, wrapperVars, cap>>

\* a call() that hands an 'error' envelope without the known message back
ApiBodySettles_ErrorAsData ==
    /\ api.pc = "reading"
    /\ api' = CASE api.reply = "not json" ->
                       [api EXCEPT !.pc = "failed", !.err = "SyntaxError"]
                [] api.reply \in {"malformed", "bad data"} ->
                       [api EXCEPT !.pc = "failed", !.err = "ZodError"]
                [] api.reply = "empty array" ->
                       [api EXCEPT !.pc = "failed", !.err = "TypeError"]
                [] api.reply = "error: school not found" ->
                       [api EXCEPT !.pc = "failed", !.err = "Invalid API key"]
                [] OTHER -> [api EXCEPT !.pc = "returned", !.data = TRUE]
    /\ UNCHANGED <<sandboxWs, wrappers, calls, disconnecting, teardownWs,
                   playgroundSnippetId, playgroundSessionId, containerDetails,
                   tornDown, lastOp, wrapperVars, cap>>

\* call() after 'await response.json()': a body that is not JSON rejects; the
\* array of envelopes is parsed (ZodError) and its first element read
\* (TypeError on an empty array); an 'error' envelope throws its message,
\* 'Invalid API key' for the known one; else output.data is returned
ApiBodySettles ==
    /\ api.pc = "reading"
    /\ api' = CASE api.reply = "not json" ->
                       [api EXCEPT !.pc = "failed", !.err = "SyntaxError"]
                [] api.reply \in {"malformed", "bad data"} ->
                       [api EXCEPT !.pc = "failed", !.err = "ZodError"]
                [] api.reply = "empty array" ->
                       [api EXCEPT !.pc = "failed", !.err = "TypeError"]
                [] api.reply = "error: school not found" ->
                       [api EXCEPT !.pc = "failed", !.err = "Invalid API key"]
                [] api.reply = "error: other" ->
                       [api EXCEPT !.pc = "failed", !.err = "errorMessage"]
                [] OTHER -> [api EXCEPT !.pc = "returned", !.data = TRUE]
    /\ UNCHANGED <<sandboxWs, wrappers, calls, disconnecting, teardownWs,
                   playgroundSnippetId, playgroundSessionId, containerDetails,
                   tornDown, lastOp, wrapperVars, cap>>

\* ------------------------------------------------------- specifications

\* the connection: connect/disconnect, the transport's events, the reconnect
Lifecycle ==
    \/ Connect
    \/ Disconnect
    \/ DisableWsAutoReconnect
    \/ \E s \in DOMAIN socks : SockOpen(s)
    \/ \E s \in DOMAIN socks : SockFail(s)
    \/ \E s \in DOMAIN socks : SockClose(s)
    \/ \E s \in DOMAIN socks : Reconnect(s)

\* correlated requests, health pings among them
Requests ==
    \/ Send
    \/ \E i \in DOMAIN reqs : RequestTimeout(i)
    \/ HealthPing

\* one-shot event waiters
Waits ==
    \/ \E t \in InTypes : WaitForNextFutureWebSocketEvent(t)
    \/ \E w \in DOMAIN waiters : WaiterTimeout(w)

Replies == \E s \in DOMAIN socks : \E msg \in ReplyMsgs : SockMessage(s, msg)

StreamEvents == \E s \in DOMAIN socks : \E msg \in StreamMsgs : SockMessage(s, msg)

NoCap == [reqs |-> 0, waiters |-> 0, socks |-> 0, stream |-> 0, handlers |-> 0,
          types |-> {}, history |-> FALSE, returns |-> FALSE,
          calls |-> 0, wrappers |-> 0, slow |-> 0, git |-> {FALSE}, ops |-> FALSE,
          tasks |-> {"t1"}, codes |-> {<<>>}, errors |-> {<<>>},
          replyTasks |-> {"none"}, cmd |-> FALSE, ports |-> {}, paths |-> {},
          streamIds |-> {Null}, apiCalls |-> 0, ticks |-> 0]

\* Spec: the connection and the correlated requests
Next == Lifecycle \/ Requests \/ Replies

Init ==
    /\ InitWrapper
    /\ InitSandbox
    /\ cap = [NoCap EXCEPT !.reqs = MaxReq, !.socks = MaxSockets,
                           !.types = {"EvalSmallCodeSnippetInsideContainer"}]

Spec == Init /\ [][Next]_vars

\* SpecWait: the connection and the event waiters (inbound messages carry no
\* messageId of a request: there are none)
NextWait == Lifecycle \/ Waits \/ Replies

InitWait ==
    /\ InitWrapper
    /\ InitSandbox
    /\ cap = [NoCap EXCEPT !.socks = WaitMaxSockets, !.waiters = MaxWaiters,
                           !.types = InTypes]

SpecWait == InitWait /\ [][NextWait]_vars

\* SpecStream: the connection and the streaming task handlers
NextStream ==
    \/ Lifecycle
    \/ \E t \in cap.tasks : AddStreamingTaskHandler(t)
    \/ StreamEvents

InitStream ==
    /\ InitWrapper
    /\ InitSandbox
    /\ cap = [NoCap EXCEPT !.socks = StreamMaxSockets, !.stream = MaxStream,
                           !.handlers = MaxHandlers]

SpecStream == InitStream /\ [][NextStream]_vars

\* SpecIdem: the connection, requests and event waiters while no message
\* arrives and no request or wait times out, with the connect() calls that
\* return at once recorded
NextIdem ==
    \/ Lifecycle
    \/ Send
    \/ HealthPing
    \/ \E t \in InTypes : WaitForNextFutureWebSocketEvent(t)

InitIdem ==
    /\ InitWrapper
    /\ InitSandbox
    /\ cap = [NoCap EXCEPT !.reqs = IdemMaxReq, !.socks = IdemMaxSockets,
                           !.waiters = IdemMaxWaiters, !.types = InTypes,
                           !.returns = TRUE]

SpecIdem == InitIdem /\ [][NextIdem]_vars

\* SpecConn: the connection alone, with the history of its sockets recorded
NextConn == Lifecycle

InitConn ==
    /\ InitWrapper
    /\ InitSandbox
    /\ cap = [NoCap EXCEPT !.socks = ConnMaxSockets, !.history = TRUE]

SpecConn == InitConn /\ [][NextConn]_vars

\* SpecSandbox: one Sandbox, its create() / fromSnippet() / disconnect() calls
\* and the wrappers they create
\* create() / fromSnippet() from the call to the answer of the session poll
Provisioning ==
    \/ Create
    \/ FromSnippet
    \/ \E c \in DOMAIN calls : ProvisionFails(c)
    \/ \E c \in DOMAIN calls : SnippetCreated(c)
    \/ \E c \in DOMAIN calls : \E type \in AttentionTypes : AttentionNeeded(c, type)
    \/ \E c \in DOMAIN calls : SessionStarted(c)
    \/ \E c \in DOMAIN calls : NoContainer(c)
    \/ \E c \in DOMAIN calls : AssignWrapper(c)

\* create() / fromSnippet() from the wrapper's connect() to their return
Connecting ==
    \/ \E c \in DOMAIN calls : ConnectReturns(c)
    \/ \E c \in DOMAIN calls : ServerReady(c)
    \/ \E c \in DOMAIN calls : ReadyFails(c)
    \/ \E c \in DOMAIN calls : CloneDone(c)
    \/ \E c \in DOMAIN calls : CloneFails(c)

WrapperEvents ==
    \/ \E w \in DOMAIN wrappers : WrapperOpen(w)
    \/ \E w \in DOMAIN wrappers : WrapperFail(w)
    \/ \E w \in DOMAIN wrappers : WrapperClose(w)
    \/ \E w \in DOMAIN wrappers : WrapperReconnect(w)

SessionTeardown ==
    \/ SandboxDisconnect
    \/ SandboxDisconnectResume
    \/ SandboxDisconnectFails

NextSandbox == Provisioning \/ Connecting \/ WrapperEvents \/ SessionTeardown

InitSandboxSpec ==
    /\ InitWrapper
    /\ InitSandbox
    /\ cap = [NoCap EXCEPT !.calls = MaxCalls, !.wrappers = MaxWrappers,
                           !.git = BOOLEAN]

SpecSandbox == InitSandboxSpec /\ [][NextSandbox]_vars

\* SpecOps: one Sandbox, its create() / fromSnippet() / disconnect() calls and
\* the session operations called on it at any moment
NextOps ==
    \/ Provisioning
    \/ Connecting
    \/ WrapperEvents
    \/ SessionTeardown
    \/ \E op \in Ops : SessionOp(op)

InitOps ==
    /\ InitWrapper
    /\ InitSandbox
    /\ cap = [NoCap EXCEPT !.calls = OpsMaxCalls, !.wrappers = OpsMaxWrappers,
                           !.git = BOOLEAN, !.ops = TRUE]

SpecOps == InitOps /\ [][NextOps]_vars

\* the polling loop of create() / fromSnippet()
Polling ==
    \/ \E c \in DOMAIN calls : PollWaiting(c)
    \/ \E c \in DOMAIN calls : Sleep(c)

\* SpecProvision: create() / fromSnippet() up to the wrapper's connect(), every
\* poll free to answer 'still provisioning'
NextProvision == Provisioning \/ Polling

InitProvision ==
    /\ InitWrapper
    /\ InitSandbox
    /\ cap = [NoCap EXCEPT !.calls = ProvMaxCalls, !.wrappers = ProvMaxWrappers,
                           !.slow = MaxPollCalls]

SpecProvision == InitProvision /\ [][NextProvision]_vars

\* SpecCommand: one runStreamingCommand() on a wrapper, the server free to send
\* the reply and the streaming events of two tasks at any moment
CmdCodes == {<<>>, <<1>>}
CmdErrors == {<<>>, <<"boom">>}

NextCommand ==
    \/ Connect
    \/ Disconnect
    \/ \E s \in DOMAIN socks : SockOpen(s)
    \/ \E s \in DOMAIN socks : SockFail(s)
    \/ \E s \in DOMAIN socks : SockClose(s)
    \/ RunStreamingCommand
    \/ RunStreamingCommandResume
    \/ \E i \in DOMAIN reqs : RequestTimeout(i)
    \/ Replies
    \/ StreamEvents

InitCommand ==
    /\ InitWrapper
    /\ InitSandbox
    /\ cap = [NoCap EXCEPT !.reqs = CmdMaxReq, !.socks = CmdMaxSockets,
                           !.stream = CmdMaxStream, !.tasks = Tasks,
                           !.codes = CmdCodes, !.errors = CmdErrors,
                           !.types = {"RunLongRunningCommand",
                                      "EvalSmallCodeSnippetInsideContainer"},
                           !.replyTasks = {"t1"}, !.cmd = TRUE]

SpecCommand == InitCommand /\ [][NextCommand]_vars

\* SpecArgs: one Sandbox, its create() and disconnect() calls, and exposePort /
\* getFile / writeFile called at any moment; each behaviour calls them with
\* one port of Ports or one path of Paths (of at most MaxPathLen pieces),
\* drawn by the initial condition
AllowedPorts == {3000, 1337, 1338}
Ports == AllowedPorts \cup {8080}

RECURSIVE SeqsUpTo(_, _)
SeqsUpTo(S, n) ==
    IF n = 0 THEN {<<>>}
    ELSE LET shorter == SeqsUpTo(S, n - 1)
         IN  shorter \cup {Append(q, x) : q \in shorter, x \in S}

Paths == SeqsUpTo(InputPieces, MaxPathLen)

NextArgs ==
    \/ Create
    \/ \E c \in DOMAIN calls : SnippetCreated(c)
    \/ \E c \in DOMAIN calls : SessionStarted(c)
    \/ \E c \in DOMAIN calls : NoContainer(c)
    \/ \E c \in DOMAIN calls : AssignWrapper(c)
    \/ \E c \in DOMAIN calls : ConnectReturns(c)
    \/ \E c \in DOMAIN calls : ServerReady(c)
    \/ \E w \in DOMAIN wrappers : WrapperOpen(w)
    \/ SandboxDisconnect
    \/ SandboxDisconnectResume
    \/ \E port \in Ports : ExposePort(port)
    \/ \E path \in Paths : GetFile(path)
    \/ \E path \in Paths : WriteFile(path)

InitArgs ==
    /\ InitWrapper
    /\ InitSandbox
    /\ cap \in {[NoCap EXCEPT !.calls = ArgMaxCalls, !.wrappers = ArgMaxWrappers,
                               !.paths = {path}] : path \in Paths}
              \cup {[NoCap EXCEPT !.calls = ArgMaxCalls, !.wrappers = ArgMaxWrappers,
                                  !.ports = {port}] : port \in Ports}

SpecArgs == InitArgs /\ [][NextArgs]_vars

\* SpecDisc: one Sandbox through one session attempt and its teardown
InitDisc ==
    /\ InitWrapper
    /\ InitSandbox
    /\ cap = [NoCap EXCEPT !.calls = DiscMaxCalls, !.wrappers = DiscMaxWrappers,
                           !.git = BOOLEAN]

SpecDisc == InitDisc /\ [][NextSandbox]_vars

\* SpecRoute: requests, event waiters and streaming handlers together on one
\* connection, the server free to send any message: replies and events of
\* either type with any message id, streaming events with or without one
NextRoute ==
    \/ Connect
    \/ \E s \in DOMAIN socks : SockOpen(s)
    \/ Send
    \/ \E i \in DOMAIN reqs : RequestTimeout(i)
    \/ \E t \in InTypes : WaitForNextFutureWebSocketEvent(t)
    \/ \E t \in cap.tasks : AddStreamingTaskHandler(t)
    \/ Replies
    \/ StreamEvents

InitRoute ==
    /\ InitWrapper
    /\ InitSandbox
    /\ cap = [NoCap EXCEPT !.reqs = RouteMaxReq, !.waiters = RouteMaxWaiters,
                           !.socks = RouteMaxSockets, !.handlers = RouteMaxHandlers,
                           !.stream = RouteMaxStream, !.types = InTypes,
                           !.tasks = Tasks, !.streamIds = {Null, 1}]

SpecRoute == InitRoute /\ [][NextRoute]_vars

\* SpecHandlers: streaming handlers across disconnect(), transport closes,
\* reconnects, request timeouts and every kind of inbound message
NextHandlers ==
    \/ Lifecycle
    \/ Send
    \/ \E i \in DOMAIN reqs : RequestTimeout(i)
    \/ \E t \in cap.tasks : AddStreamingTaskHandler(t)
    \/ Replies
    \/ StreamEvents

InitHandlers ==
    /\ InitWrapper
    /\ InitSandbox
    /\ cap = [NoCap EXCEPT !.reqs = HandMaxReq, !.socks = HandMaxSockets,
                           !.handlers = HandMaxHandlers, !.stream = HandMaxStream,
                           !.types = {"EvalSmallCodeSnippetInsideContainer"},
                           !.history = TRUE]

SpecHandlers == InitHandlers /\ [][NextHandlers]_vars

\* SpecCmdDisc: one Sandbox on its wrapper followed in detail: the connect()
\* of create(), the transport's events and the reconnect, one
\* runStreamingCommand() and disconnect() calls at any moment
NextCmdDisc ==
    \/ (socks = <<>> /\ Connect)
    \/ \E s \in DOMAIN socks : SockOpen(s)
    \/ \E s \in DOMAIN socks : SockFail(s)
    \/ \E s \in DOMAIN socks : SockClose(s)
    \/ \E s \in DOMAIN socks : Reconnect(s)
    \/ (~tornDown /\ RunStreamingCommand)
    \/ RunStreamingCommandResume
    \/ \E i \in DOMAIN reqs : RequestTimeout(i)
    \/ Replies
    \/ StreamEvents
    \/ SandboxDisconnectOnWrapper
    \/ SandboxDisconnectOnWrapperResume
    \/ SandboxDisconnectOnWrapperFails

InitCmdDisc ==
    /\ InitWrapper
    /\ InitSandbox
    /\ cap = [NoCap EXCEPT !.reqs = CmdDiscMaxReq, !.socks = CmdDiscMaxSockets,
                           !.stream = CmdDiscMaxStream, !.codes = {<<1>>},
                           !.types = {"RunLongRunningCommand"},
                           !.replyTasks = {"t1"}, !.cmd = TRUE]

SpecCmdDisc == InitCmdDisc /\ [][NextCmdDisc]_vars

\* SpecApi: one ApiClient constructed with any key, and its calls with data
\* that fits the input schema or not and any answer of the backend
NextApi ==
    \/ \E key \in ApiKeys : NewApiClient(key)
    \/ \E inputOk \in BOOLEAN : \E reply \in ApiReplies : ApiCall(inputOk, reply)
    \/ ApiFetchSettles
    \/ ApiBodySettles

InitApi ==
    /\ InitWrapper
    /\ InitSandbox
    /\ cap = [NoCap EXCEPT !.apiCalls = ApiMaxCalls]

SpecApi == InitApi /\ [][NextApi]_vars

\* ------------------------------------------------- send() on the clock

\* the timeout send() is given when its caller names none
DefaultTimeout == 30000

\* the timeouts callers pass, in ms
SendTimeouts == {5000, 60000}

\* the options argument of send(): omitted (given FALSE), or an object whose
\* timeout field is absent (<<>>) or a number of ms (<<n>>)
SendOptions ==
    {[given |-> FALSE, timeout |-> <<>>], [given |-> TRUE, timeout |-> <<>>]}
        \cup {[given |-> TRUE, timeout |-> <<t>>] : t \in SendTimeouts}

\* the parameter 'options = { timeout: 30000 }': the default object stands in
\* for an omitted argument only, an object that was passed is taken as it is
OptionsParameter(o) ==
    IF o.given THEN o ELSE [given |-> TRUE, timeout |-> <<DefaultTimeout>>]

\* setTimeout(callback, delay): a delay that is undefined or below 1 ms is
\* taken as 1 ms
SetTimeoutDelay(t) == IF t = <<>> \/ t[1] < 1 THEN 1 ELSE t[1]

\* how far the clock advances in one step, in ms
Durations == {1, 4999, 25000, 30000}

\* send({payload, options}): 'const timeout = options.timeout', the deferred
\* promise, setTimeout(..., timeout), the map entry, sendSingleMessage
SendWithOptions(o) ==
    /\ cap.ticks > 0
    /\ sendTimer.state = "none"
    /\ Len(reqs) < cap.reqs
    /\ DoSend("EvalSmallCodeSnippetInsideContainer")
    /\ sendTimer' = [state |-> "armed", req |-> Len(reqs) + 1, given |-> o.given,
                     timeout |-> o.timeout,
                     delay |-> SetTimeoutDelay(OptionsParameter(o).timeout),
                     elapsed |-> 0, ticks |-> 0, firedAt |-> 0]
    /\ UNCHANGED <<connectionState, ws, shouldAutoReconnect, urlOk, sockHistory, socks,
                   waitMap, waiters, healthPingTimeoutId, pingTimers,
                   streamingTaskHandlers, nHandlers, cbLog, inLog, cap,
                   connectReturned, cmd, sandboxVars>>

\* time passes while the timer of the send() followed is set
Tick(d) ==
    /\ sendTimer.state = "armed"
    /\ sendTimer.ticks < cap.ticks
    /\ sendTimer' = [sendTimer EXCEPT !.elapsed = @ + d, !.ticks = @ + 1]
    /\ UNCHANGED <<wrapperVarsButTimer, sandboxVars, cap>>

\* the timer callback of the send() followed, no earlier than the delay the
\* timer was set with: delete the entry, reject with a timeout error
SendTimerFires ==
    /\ sendTimer.state = "armed"
    /\ sendTimer.elapsed >= sendTimer.delay
    /\ reqs[sendTimer.req].timer = "armed"
    /\ pendingMap' = pendingMap \ {sendTimer.req}
    /\ reqs' = [reqs EXCEPT ![sendTimer.req].timer = "fired",
                            ![sendTimer.req].p = Reject(@, "timeout")]
    /\ sendTimer' = [sendTimer EXCEPT !.state = "fired", !.firedAt = sendTimer.elapsed]
    /\ UNCHANGED <<connectionState, ws, shouldAutoReconnect, urlOk, sockHistory, socks,
                   waitMap, waiters, messagesData, healthPingTimeoutId, pingTimers,
                   streamingTaskHandlers, nHandlers, transportLog, cbLog, inLog, cap,
                   connectReturned, cmd, sandboxVars>>

\* SpecSend: one send() with any options argument, on a wrapper that was
\* never connected, and the clock
NextSend ==
    \/ \E o \in SendOptions : SendWithOptions(o)
    \/ \E d \in Durations : Tick(d)
    \/ SendTimerFires

InitSend ==
    /\ InitWrapper
    /\ InitSandbox
    /\ cap = [NoCap EXCEPT !.reqs = SendMaxReq, !.ticks = SendMaxTicks]

SpecSend == InitSend /\ [][NextSend]_vars

\* SpecTeardown: the connection, requests and event waiters together
NextTeardown == Lifecycle \/ Requests \/ Waits \/ Replies

InitTeardown ==
    /\ InitWrapper
    /\ InitSandbox
    /\ cap = [NoCap EXCEPT !.reqs = TeardownMaxReq, !.socks = TeardownMaxSockets,
                           !.waiters = TeardownMaxWaiters, !.types = InTypes]

SpecTeardown == InitTeardown /\ [][NextTeardown]_vars

\* ---------------------------------------------------------------- claims

Armed(i) == reqs[i].timer = "armed"
Settled(i) == reqs[i].p.state # "pending"
Delivered(i) == \E k \in DOMAIN transportLog : transportLog[k].id = i
SomeSocketListens ==
    \E s \in DOMAIN socks : socks[s].readyState = "OPEN" /\ socks[s].listeners

\* C1: exactly-once settlement of send(). Every request created by send() has
\* had resolve/reject called on its promise at most once; it is in the pending
\* map exactly while it is unsettled (and its timer armed exactly then), and
\* once out of the map it was settled by exactly one of: the response, the
\* timeout, 'WebSocket closed'.
C1_ExactlyOnceSettlement ==
    \A i \in DOMAIN reqs :
        /\ reqs[i].p.calls <= 1
        /\ (i \in pendingMap) <=> ~Settled(i)
        /\ Armed(i) <=> (i \in pendingMap)
        /\ Settled(i) => reqs[i].p.calls = 1
        /\ reqs[i].p.state = "rejected" => reqs[i].p.reason \in {"timeout", "closed"}
        /\ reqs[i].p.state = "resolved" => reqs[i].timer = "cleared"

\* C1 witness: the three ways of settling have all happened to some request
\* or other is too much for two requests; here one request was settled by its
\* response and another by a close
C1_Witness ==
    \E i, j \in DOMAIN reqs :
        /\ reqs[i].p.state = "resolved"
        /\ reqs[j].p.reason = "closed"

\* C2: request correlation. A step that resolves a request's promise resolves
\* it with a message whose messageId is that request's id and changes no other
\* request; a resolved promise holds the payload of its own messageId.
C2_ResolvedByOwnId ==
    \A i \in DOMAIN reqs :
        reqs[i].p.state = "resolved" => reqs[i].p.value.messageId = i

C2_Step ==
    \A i \in DOMAIN reqs :
        (reqs[i].p.state = "pending" /\ reqs'[i].p.state = "resolved")
            => /\ reqs'[i].p.value.messageId = i
               /\ \A j \in DOMAIN reqs \ {i} : reqs'[j] = reqs[j]

C2_Correlation == []C2_ResolvedByOwnId /\ [][C2_Step]_vars

\* C2 witness: two requests were in flight on the transport and the response
\* to the second arrived first
C2_Witness ==
    /\ Len(reqs) >= 2
    /\ Delivered(1) /\ Delivered(2)
    /\ reqs[1].p.state = "pending"
    /\ reqs[2].p.state = "resolved"

\* C3: request timeout. When the timer of a request fires, its promise is
\* rejected with the timeout error and its id leaves the pending map; from then
\* on the promise never changes and the id never returns to the map, whatever
\* arrives.
C3_TimedOutGone ==
    \A i \in DOMAIN reqs :
        reqs[i].timer = "fired" =>
            /\ reqs[i].p.state = "rejected" /\ reqs[i].p.reason = "timeout"
            /\ i \notin pendingMap

C3_Step ==
    \A i \in DOMAIN reqs :
        /\ (Armed(i) /\ reqs'[i].timer = "fired")
              => /\ reqs'[i].p.state = "rejected" /\ reqs'[i].p.reason = "timeout"
                 /\ i \notin pendingMap'
        /\ reqs[i].timer = "fired" => reqs'[i] = reqs[i]

C3_RequestTimeout == []C3_TimedOutGone /\ [][C3_Step]_vars

\* C3 witness: a request that reached the transport has timed out while a
\* socket is still open to deliver its late response
C3_Witness ==
    \E i \in DOMAIN reqs :
        /\ reqs[i].timer = "fired"
        /\ Delivered(i)
        /\ SomeSocketListens

\* C6: the outbound queue is FIFO. Message ids are given in the order of the
\* send() calls; the transport receives them in increasing order, so queued
\* messages go out in call order and before any message sent later; and while
\* the wrapper is connected on an open socket nothing waits in the queue.
C6_QueueFifo ==
    /\ \A a, b \in DOMAIN transportLog :
           a < b => transportLog[a].id < transportLog[b].id
    /\ (connectionState = "connected" /\ ws # Null /\ socks[ws].readyState = "OPEN")
           => messagesData = <<>>

\* C6 witness: two messages that send() had queued were handed to the
\* transport
C6_Witness ==
    \E a, b \in DOMAIN transportLog :
        /\ a < b
        /\ reqs[transportLog[a].id].queued
        /\ reqs[transportLog[b].id].queued

Registered(w) == \E t \in InTypes : waitMap[t] = w
Outstanding(w) == waiters[w].p.state = "pending"

\* C4: superseded event waiter. The waiter registered for an event type is of
\* that type and unsettled (so at most one waiter per type is registered). A
\* wait call for a type that has a registered waiter rejects that waiter in the
\* same step with 'Replaced by new wait'; a replaced waiter's promise stays
\* rejected that way; and a step resolves a waiter only if it is the registered
\* one, the newest of its type, with an event of that type.
C4_OnePerType ==
    \A t \in InTypes :
        waitMap[t] # Null =>
            /\ waitMap[t] \in DOMAIN waiters
            /\ waiters[waitMap[t]].eventType = t
            /\ Outstanding(waitMap[t])

C4_Step ==
    /\ \A t \in InTypes :
           (waitMap[t] # Null /\ Len(waiters') > Len(waiters)
                /\ waiters'[Len(waiters')].eventType = t)
               => /\ waiters'[waitMap[t]].p.state = "rejected"
                  /\ waiters'[waitMap[t]].p.reason = "replaced"
                  /\ waitMap'[t] = Len(waiters')
    /\ \A w \in DOMAIN waiters :
           /\ waiters[w].p.reason = "replaced"
                 => /\ waiters'[w].p.state = "rejected"
                    /\ waiters'[w].p.reason = "replaced"
           /\ (Outstanding(w) /\ waiters'[w].p.state = "resolved")
                 => /\ waitMap[waiters[w].eventType] = w
                    /\ \A v \in DOMAIN waiters :
                           waiters[v].eventType = waiters[w].eventType => v <= w
                    /\ waiters'[w].p.value.eventType = waiters[w].eventType

C4_SupersededWaiter == []C4_OnePerType /\ [][C4_Step]_vars

\* C4 witness: the first waiter was replaced by a second wait for the same
\* type, and a matching event resolved the second
C4_Witness ==
    /\ Len(waiters) >= 2
    /\ waiters[1].eventType = waiters[2].eventType
    /\ waiters[1].p.reason = "replaced"
    /\ waiters[2].p.state = "resolved"

\* C5: disconnect() fails every outstanding request and every outstanding
\* event waiter with 'WebSocket closed', empties the pending map, the waiter
\* map and the queue; and a future failed by a close is never resolved later.
C5_DisconnectStep ==
    Disconnect =>
        /\ \A i \in DOMAIN reqs :
               ~Settled(i) => /\ reqs'[i].p.state = "rejected"
                              /\ reqs'[i].p.reason = "closed"
        /\ \A w \in DOMAIN waiters :
               Outstanding(w) => /\ waiters'[w].p.state = "rejected"
                                 /\ waiters'[w].p.reason = "closed"
        /\ pendingMap' = {}
        /\ \A t \in InTypes : waitMap'[t] = Null
        /\ messagesData' = <<>>

C5_ClosedStaysFailed ==
    /\ \A i \in DOMAIN reqs :
           reqs[i].p.reason = "closed" => reqs'[i].p.state = "rejected"
    /\ \A w \in DOMAIN waiters :
           waiters[w].p.reason = "closed" => waiters'[w].p.state = "rejected"

C5_DisconnectFailsAll == [][C5_DisconnectStep /\ C5_ClosedStaysFailed]_vars

\* what disconnect() does achieve: the same for the requests and for the
\* waiters that are registered in the waiter map
C5_RegisteredStep ==
    Disconnect =>
        /\ \A i \in DOMAIN reqs :
               ~Settled(i) => /\ reqs'[i].p.state = "rejected"
                              /\ reqs'[i].p.reason = "closed"
        /\ \A w \in DOMAIN waiters :
               Registered(w) => /\ waiters'[w].p.state = "rejected"
                                /\ waiters'[w].p.reason = "closed"
        /\ pendingMap' = {}
        /\ \A t \in InTypes : waitMap'[t] = Null
        /\ messagesData' = <<>>

C5_DisconnectFailsRegistered == [][C5_RegisteredStep /\ C5_ClosedStaysFailed]_vars

\* the callbacks the n-th streaming event owes the handler found for it
Expected(n) ==
    LET e == inLog[n]
    IN  IF e.h = Null THEN <<>>
        ELSE IF e.msg.type = "io"
        THEN (IF e.msg.stdout THEN <<[h |-> e.h, cb |-> "onStdout", n |-> n]>> ELSE <<>>)
             \o (IF e.msg.stderr THEN <<[h |-> e.h, cb |-> "onStderr", n |-> n]>> ELSE <<>>)
        ELSE <<[h |-> e.h, cb |-> "onClose", n |-> n]>>

RECURSIVE ExpectedUpTo(_)
ExpectedUpTo(n) == IF n = 0 THEN <<>> ELSE ExpectedUpTo(n - 1) \o Expected(n)

\* C7: streaming dispatch order. The callbacks invoked are exactly those owed
\* to the events in arrival order (stdout/stderr once per chunk of an 'io'
\* event, onClose for a 'close' event); a handler's onClose fires at most once
\* and nothing of that handler fires after it; a handler whose onClose fired is
\* no longer registered, and no later event of the task finds it.
C7_StreamingDispatch ==
    /\ cbLog = ExpectedUpTo(Len(inLog))
    /\ \A a, b \in DOMAIN cbLog :
           (a < b /\ cbLog[a].cb = "onClose") => cbLog[b].h # cbLog[a].h
    /\ \A a \in DOMAIN cbLog :
           cbLog[a].cb = "onClose" =>
               \A t \in Tasks : streamingTaskHandlers[t] # cbLog[a].h
    /\ \A n, m \in DOMAIN inLog :
           (n < m /\ inLog[n].h # Null /\ inLog[n].msg.type = "close")
               => inLog[m].h # inLog[n].h

\* C7 witness: a handler received a chunk, then its close, and a further event
\* of the same task arrived after that
C7_Witness ==
    /\ Len(inLog) >= 3
    /\ inLog[1].h # Null /\ inLog[1].msg.type = "io" /\ inLog[1].msg.stdout
    /\ inLog[2].h = inLog[1].h /\ inLog[2].msg.type = "close"
    /\ inLog[3].msg.uniqueTaskId = inLog[1].msg.uniqueTaskId
    /\ Len(cbLog) >= 2

\* a socket made by the automatic reconnect (not by the owner's connect())
ByReconnect(k) == sockHistory[k].origin # Null

\* C9: reconnect is single-shot. A socket made by the automatic reconnect that
\* closes without ever opening is the end of the chain: no socket is ever made
\* by the reconnect of such a socket's own close.
C9_SingleShotReconnect ==
    \A k \in DOMAIN sockHistory :
        (ByReconnect(k) /\ ByReconnect(sockHistory[k].origin))
            => sockHistory[sockHistory[k].origin].opened

\* C9 case: the chain went on: a reconnect attempt failed without opening, and
\* its own close made the next attempt
C9_RetryChain ==
    \E k \in DOMAIN sockHistory :
        /\ ByReconnect(k)
        /\ ByReconnect(sockHistory[k].origin)
        /\ ~sockHistory[sockHistory[k].origin].opened

\* C10: explicit disconnect is absorbing. Once disconnect() was called, the
\* next socket of the wrapper, if any, is made by the owner's connect(). The
\* property is stated for a disconnect() with auto-reconnect disabled by the
\* time the next socket is made, which is what the first revision's
\* disconnect() sets itself and what Sandbox.disconnect() sets before calling
\* it: no socket that follows a disconnect() is made by the automatic
\* reconnect with shouldAutoReconnect already false.
C10_DisconnectAbsorbing ==
    \A k \in DOMAIN sockHistory :
        (k < Len(sockHistory) /\ sockHistory[k].disconnected
            /\ ByReconnect(k + 1))
            => sockHistory[k + 1].auto

\* C10 case: disconnect() was called during the backoff with auto-reconnect
\* disabled, and the reconnect made a new socket all the same
C10_ReconnectAfterDisconnect ==
    \E k \in DOMAIN sockHistory :
        /\ k < Len(sockHistory)
        /\ sockHistory[k].disconnected
        /\ ByReconnect(k + 1)
        /\ ~sockHistory[k + 1].auto
        /\ connectionState \in {"connecting", "connected"}

\* a wrapper holding a physical connection, or about to make one
Active(w) ==
    \/ wrappers[w].readyState \in {"CONNECTING", "OPEN"}
    \/ wrappers[w].backoff

\* C8: a session has at most one active wrapper at any time, and it is the
\* one the Sandbox holds: no other wrapper is open, connecting, or waiting to
\* reconnect.
C8_OneActiveWrapper ==
    \A w \in DOMAIN wrappers : Active(w) => w = sandboxWs

\* C8 case: two wrappers of one session are connected at once, the earlier
\* one no longer held by the Sandbox
C8_TwoWrappersOpen ==
    /\ Len(wrappers) = 2
    /\ wrappers[1].readyState = "OPEN" /\ wrappers[1].connectionState = "connected"
    /\ wrappers[2].readyState = "OPEN" /\ wrappers[2].connectionState = "connected"
    /\ sandboxWs = 2

\* isConnected(): the state is 'connected'
IsConnected == connectionState = "connected"

\* C11: the connection state follows disconnected -> connecting -> connected
\* -> disconnected. isConnected() is true only while the wrapper holds an open
\* physical connection, and a disconnect() on a connected wrapper leaves it
\* 'disconnected' with isConnected() false.
C11_ConnectedMeansOpen ==
    IsConnected => (ws # Null /\ socks[ws].readyState = "OPEN")

C11_DisconnectStep ==
    (Disconnect /\ IsConnected) => (connectionState' = "disconnected" /\ ~IsConnected')

C11_StateMachine == []C11_ConnectedMeansOpen /\ [][C11_DisconnectStep]_vars

\* C11 case: disconnect() was called on a connected wrapper: the socket is
\* closed and released, and the state still reads 'connected'
C11_ConnectedAfterDisconnect ==
    /\ sockHistory # <<>>
    /\ sockHistory[Len(sockHistory)].disconnected
    /\ sockHistory[Len(sockHistory)].opened
    /\ ws = Null
    /\ socks[Len(socks)].readyState = "CLOSED"
    /\ IsConnected

\* C12: connect() is idempotent when already connected. A connect() called by
\* the owner in state 'connected' creates no socket, returns resolved, and
\* leaves the state, the socket held, the pending map and its requests, the
\* waiter map and its waiters, the queue and the ping timer as they were.
C12_Step ==
    (Connect /\ IsConnected) =>
        /\ socks' = socks
        /\ connectReturned'
        /\ UNCHANGED <<connectionState, ws, pendingMap, reqs, waitMap, waiters,
                       messagesData, healthPingTimeoutId, transportLog>>

C12_ConnectIdempotent == [][C12_Step]_vars

\* C12 case: connect() returned at once on a connected wrapper that has a
\* request pending and its ping timer armed
C12_Witness ==
    /\ connectReturned
    /\ IsConnected
    /\ ws # Null /\ socks[ws].readyState = "OPEN"
    /\ pendingMap # {}
    /\ healthPingTimeoutId = "armed"

\* C13: after Sandbox.disconnect() has completed, every session operation
\* (and a second disconnect) fails with the 'not connected' error; none returns
\* a value or goes on to a network call.
C13_FailsAfterTeardown ==
    lastOp.tornDown => lastOp.outcome = NotConnectedError

\* C13 case: getPublicUrls() called after a completed disconnect() returns the
\* URLs of the container
C13_UrlsAfterTeardown ==
    /\ lastOp.tornDown /\ tornDown /\ sandboxWs = Null
    /\ lastOp.op = "getPublicUrls"
    /\ lastOp.outcome = "returned"

\* C14: a failed provisioning attempt leaves the Sandbox usable: when every
\* create() / fromSnippet() call made so far has failed, the Sandbox does not
\* report itself connected (a further create() is not rejected with 'WebSocket
\* already connected') and no wrapper of a failed attempt is open, connecting
\* or waiting to reconnect.
C14_FailedLeavesUsable ==
    (calls # <<>> /\ \A c \in DOMAIN calls : calls[c].pc = "failed")
        => (~SandboxIsConnected /\ \A w \in DOMAIN wrappers : ~Active(w))

\* C14 case: the only call failed waiting for ContainerServerReady, nobody
\* called disconnect(), and the Sandbox holds a connected wrapper
C14_ConnectedAfterFailure ==
    /\ Len(calls) = 1 /\ calls[1].pc = "failed" /\ calls[1].err = "wait"
    /\ ~disconnecting /\ ~tornDown
    /\ SandboxIsConnected
    /\ wrappers[sandboxWs].readyState = "OPEN"
    /\ wrappers[sandboxWs].shouldAutoReconnect

\* C15: once containerDetails holds a non-null value, no step of the Sandbox
\* (create(), fromSnippet(), disconnect(), a wrapper's reconnect) changes it.
C15_Step == containerDetails # Null => containerDetails' = containerDetails

C15_DetailsImmutable == [][C15_Step]_vars

\* C15 case: the first call completed with the details of its container and a
\* wrapper; the Sandbox now holds the details the second call was given
C15_DetailsReplaced ==
    /\ Len(calls) = 2
    /\ calls[1].pc = "done" /\ ~calls[1].git /\ calls[1].w # Null
    /\ containerDetails = 2

AttentionErrors == {AttentionError(type) : type \in AttentionTypes}

\* a call that failed on 'attention-needed' issued no poll, made no wrapper
\* and stored no session id; the three attention types have three errors
C16_NothingStarted ==
    /\ \A c \in DOMAIN calls :
           calls[c].err \in AttentionErrors =>
               /\ calls[c].pc = "failed"
               /\ calls[c].polls = 0
               /\ calls[c].w = Null
               /\ playgroundSessionId # c
    /\ Cardinality(AttentionErrors) = Cardinality(AttentionTypes)

\* the step in which start-session answers 'attention-needed' is the step in
\* which the call fails, with the error of that attention type
C16_Step ==
    \A c \in DOMAIN calls : \A type \in AttentionTypes :
        AttentionNeeded(c, type) =>
            /\ calls'[c].pc = "failed"
            /\ calls'[c].err = AttentionError(type)
            /\ UNCHANGED <<playgroundSessionId, wrappers, sandboxWs>>

\* C16: when start-session returns 'attention-needed', create() and
\* fromSnippet() fail at once with the error of the attention type, without a
\* poll, without a wrapper, and without assigning a session id.
C16_AttentionFailsAtOnce == []C16_NothingStarted /\ [][C16_Step]_vars

\* C16 case: fromSnippet() failed on 'can-terminate-and-get-new'
C16_Witness ==
    /\ calls # <<>>
    /\ calls[1].op = "fromSnippet"
    /\ calls[1].pc = "failed"
    /\ calls[1].err = "Can terminate and get new session"
    /\ playgroundSessionId = Null

\* a call never issues more than ceil(timeout / interval) = 60 polls, and one
\* that failed with 'Provisioning timeout' issued exactly that many and made
\* no wrapper
C17_PollsBounded ==
    /\ MaxPollCalls = 60
    /\ \A c \in DOMAIN calls :
           /\ calls[c].polls <= MaxPollCalls
           /\ calls[c].err = "Provisioning timeout" =>
                  /\ calls[c].pc = "failed"
                  /\ calls[c].polls = MaxPollCalls
                  /\ calls[c].w = Null

\* after the last poll answered 'still provisioning', the call's next step is
\* the failure with 'Provisioning timeout'
C17_Step ==
    \A c \in DOMAIN calls :
        (calls[c].pc = "sleep" /\ calls[c].polls = MaxPollCalls /\ calls'[c] # calls[c])
            => (calls'[c].pc = "failed" /\ calls'[c].err = "Provisioning timeout"
                /\ wrappers' = wrappers)

\* C17: provisioning polling terminates: at most ceil(timeout / 500) polls (60
\* with the default 30000 ms), and when every poll reports 'still
\* provisioning' the call fails with 'Provisioning timeout', no wrapper made.
C17_PollingTerminates == []C17_PollsBounded /\ [][C17_Step]_vars

\* C17 case: create() failed with 'Provisioning timeout' after 60 polls
C17_Witness ==
    /\ calls # <<>>
    /\ calls[1].op = "create"
    /\ calls[1].err = "Provisioning timeout"
    /\ calls[1].polls = 60
    /\ wrappers = <<>>

\* C18: a terminal close event whose exit code is null yields a result whose
\* exit code is 0.
C18_NullCodeIsZero ==
    (cmd.pc = "resolved" /\ inLog[cmd.closeN].msg.code = <<>>)
        => cmd.result.exitCode = <<0>>

\* C18 case: the command resolved on a close event with a null code, and the
\* exit code of its result is null
C18_NullExitCode ==
    /\ cmd.pc = "resolved"
    /\ inLog[cmd.closeN].msg.code = <<>>
    /\ cmd.result.exitCode = <<>>

\* C19: a terminal close event that carries an error string makes the awaited
\* runStreamingCommand() fail with that error; it does not resolve.
C19_ErrorFails ==
    \A n \in DOMAIN inLog :
        (cmd.h # Null /\ inLog[n].h = cmd.h /\ inLog[n].msg.type = "close"
         /\ inLog[n].msg.error # <<>>)
            => (cmd.pc = "failed" /\ cmd.resolves = 0
                /\ cmd.err = inLog[n].msg.error[1])

\* C19 case: the command resolved on a close event that carries an error
C19_ResolvedWithError ==
    /\ cmd.pc = "resolved"
    /\ cmd.resolves = 1
    /\ inLog[cmd.closeN].msg.error = <<"boom">>

\* the events of the command's task that arrived after event number from and
\* before event number upTo and carry a chunk of the stream, in arrival order
Chunks(stream, from, upTo) ==
    SelectSeq([i \in 1 .. Len(inLog) |-> i],
              LAMBDA i : /\ from < i /\ i < upTo
                         /\ inLog[i].msg.uniqueTaskId = cmd.task
                         /\ inLog[i].msg.type = "io"
                         /\ inLog[i].msg[stream])

\* the close events of the command's task that arrived after event number from
Closes(from) ==
    {i \in DOMAIN inLog : /\ from < i
                          /\ inLog[i].msg.uniqueTaskId = cmd.task
                          /\ inLog[i].msg.type = "close"}

\* the result of the command with respect to the events that arrived after
\* event number from: resolved exactly when the first close event arrived,
\* with all the chunks before it and its exit code
ResultFrom(from) ==
    /\ cmd.resolves <= 1
    /\ cmd.pc = "streaming" => Closes(from) = {}
    /\ cmd.pc = "resolved" =>
           /\ cmd.closeN \in Closes(from)
           /\ \A i \in Closes(from) : cmd.closeN <= i
           /\ cmd.result.stdout = Chunks("stdout", from, cmd.closeN)
           /\ cmd.result.stderr = Chunks("stderr", from, cmd.closeN)
           /\ cmd.result.exitCode = inLog[cmd.closeN].msg.code

\* C20: runStreamingCommand() resolves exactly once, when the terminal close
\* event arrives, with stdout and stderr the concatenation of all the chunks
\* of its task in arrival order and with the exit code of the close event;
\* the events of the task are those that arrive after the reply that starts it.
C20_ResolvesOnceWithAll == ResultFrom(cmd.startN)

\* the same for the events that arrive after the handler is registered
C20_AfterRegistration == ResultFrom(cmd.regN)

\* C20 case: the command resolved without a stdout chunk of its task that
\* arrived after the reply
C20_ChunkLost ==
    /\ cmd.pc = "resolved"
    /\ Len(cmd.result.stdout) < Len(Chunks("stdout", cmd.startN, cmd.closeN))

\* C21: exposePort for a port outside the allow-list {3000, 1337, 1338} fails
\* without a network call; a URL is returned only for the three listed ports.
C21_OnlyAllowedPorts ==
    (lastOp.op = "exposePort" /\ lastOp.arg[1] \notin AllowedPorts)
        => lastOp.outcome \notin {"returned", "network"}

\* C21 case: exposePort(8080) on a connected Sandbox returned a URL
C21_UnlistedPortUrl ==
    /\ lastOp.op = "exposePort"
    /\ lastOp.arg = <<8080>>
    /\ lastOp.outcome = "returned"

\* the absolute form the README documents for a path written with '~'
DocumentedAbsolute(path) == <<Home, "/code">> \o Tail(path)

\* C22: a path written with '~' and the same path in the documented absolute
\* form ('~/file.js' is '/home/damner/code/file.js') normalize to the same
\* server-side path: what getFile / writeFile send for the '~' spelling is
\* what they send for the absolute spelling.
C22_TildeEqualsAbsolute ==
    (lastOp.op \in {"getFile", "writeFile"} /\ lastOp.outcome = "network"
     /\ lastOp.arg[1] = "~")
        => lastOp.sent = NormalizePath(DocumentedAbsolute(lastOp.arg)).path

\* C22 case: getFile('~/f') asked the server for '/home/damner/f', while
\* '/home/damner/code/f' is sent unchanged
C22_DifferentFiles ==
    /\ lastOp.op = "getFile"
    /\ lastOp.outcome = "network"
    /\ lastOp.arg = <<"~", "/f">>
    /\ lastOp.sent = <<Home, "/f">>
    /\ NormalizePath(<<Home, "/code", "/f">>).path = <<Home, "/code", "/f">>

\* a path that starts with neither the home prefix nor '~'
Unrooted(path) == path = <<>> \/ path[1] \notin {"~", Home}

\* getFile / writeFile with an unrooted path, called while connection details
\* exist, fails with the invalid-path error
C23_StepWithDetails ==
    \A path \in cap.paths :
        ((GetFile(path) \/ WriteFile(path)) /\ Unrooted(path) /\ containerDetails # Null)
            => (lastOp'.outcome = InvalidPath /\ lastOp'.sent = <<>>)

\* C23 as stated: the invalid-path error in every state in which connection
\* details exist.
C23_InvalidPathWithDetails == [][C23_StepWithDetails]_vars

\* getFile / writeFile with an unrooted path sends nothing in any state; it
\* fails with the invalid-path error when the Sandbox is connected and with
\* the 'not connected' error when it is not
C23_Step ==
    \A path \in cap.paths :
        ((GetFile(path) \/ WriteFile(path)) /\ Unrooted(path))
            => /\ lastOp'.sent = <<>>
               /\ lastOp'.outcome =
                      IF SandboxIsConnected THEN InvalidPath ELSE NotConnectedError

\* C23 with the connection check that comes first: an unrooted path fails with
\* the invalid-path error on a connected Sandbox, with the 'not connected'
\* error otherwise, and never reaches the network.
C23_InvalidPathWhenConnected == [][C23_Step]_vars

\* C23 case: writeFile with '/etc/f' on a connected Sandbox with container
\* details failed with the invalid-path error
C23_Witness ==
    /\ lastOp.op = "writeFile"
    /\ lastOp.arg = <<"/etc", "/f">>
    /\ lastOp.outcome = InvalidPath
    /\ lastOp.sent = <<>>
    /\ SandboxIsConnected
    /\ containerDetails # Null

\* C23 case: getFile with '/etc/f' after disconnect(), the container details
\* still there, failed with the 'not connected' error
C23_NotConnectedFirst ==
    /\ lastOp.op = "getFile"
    /\ lastOp.arg = <<"/etc", "/f">>
    /\ lastOp.outcome = NotConnectedError
    /\ lastOp.tornDown
    /\ containerDetails # Null

\* while disconnect() waits for the HTTP call, auto-reconnect of the wrapper
\* it started on is off and no reconnect of that wrapper is pending
C24_NoReconnectInTeardown ==
    disconnecting =>
        /\ teardownWs # Null
        /\ ~wrappers[teardownWs].shouldAutoReconnect
        /\ ~wrappers[teardownWs].backoff

\* the step that issues the HTTP call has disabled auto-reconnect and has not
\* closed the wrapper; while the call is pending the wrapper is not closed by
\* the teardown (only the transport may close it, which runs onClose) and does
\* not start to reconnect; the step after the call closes the wrapper, or
\* changes nothing when the call failed
C24_Step ==
    /\ (~disconnecting /\ disconnecting') =>
           /\ teardownWs' = sandboxWs
           /\ wrappers' = [wrappers EXCEPT ![sandboxWs].shouldAutoReconnect = FALSE]
           /\ wrappers'[sandboxWs].readyState = "OPEN"
           /\ wrappers'[sandboxWs].listeners
    /\ (disconnecting /\ disconnecting') =>
           /\ teardownWs' = teardownWs
           /\ ~wrappers'[teardownWs].backoff
           /\ wrappers'[teardownWs].readyState # "CONNECTING"
           /\ (wrappers[teardownWs].listeners /\ ~wrappers'[teardownWs].listeners)
                  => wrappers'[teardownWs].connectionState = "disconnected"
    /\ (disconnecting /\ ~disconnecting') =>
           \/ UNCHANGED <<wrappers, sandboxWs>>
           \/ /\ sandboxWs' = Null
              /\ sandboxWs = teardownWs =>
                     /\ ~wrappers'[teardownWs].listeners
                     /\ wrappers'[teardownWs].readyState # "OPEN"

\* C24: in Sandbox.disconnect() auto-reconnect is disabled before the HTTP
\* disconnect call is issued, the wrapper is closed only after that call has
\* completed, and at no point during teardown does an unexpected close
\* trigger a reconnect.
C24_TeardownOrder == []C24_NoReconnectInTeardown /\ [][C24_Step]_vars

\* C24 case: the transport closed the wrapper while disconnect() waits for the
\* HTTP call, and no reconnect is pending
C24_Witness ==
    /\ disconnecting
    /\ wrappers[teardownWs].readyState = "CLOSED"
    /\ wrappers[teardownWs].connectionState = "disconnected"
    /\ ~wrappers[teardownWs].backoff

\* what the dispatch of msg may change, by priority: a streaming event reaches
\* only the handler of its task; else a pending messageId settles that
\* request; else a waiter of the eventType is resolved; else nothing changes
Routed(msg) ==
    IF msg.eventType = StreamType
    THEN LET h == streamingTaskHandlers[msg.uniqueTaskId]
         IN  /\ UNCHANGED <<pendingMap, reqs, waitMap, waiters, messagesData,
                            connectionState>>
             /\ IF h = Null
                THEN UNCHANGED <<streamingTaskHandlers, cbLog>>
                ELSE /\ Len(cbLog') >= Len(cbLog)
                     /\ SubSeq(cbLog', 1, Len(cbLog)) = cbLog
                     /\ \A i \in Len(cbLog) + 1 .. Len(cbLog') : cbLog'[i].h = h
                     /\ streamingTaskHandlers' =
                            IF msg.type = "close"
                            THEN [streamingTaskHandlers EXCEPT ![msg.uniqueTaskId] = Null]
                            ELSE streamingTaskHandlers
    ELSE IF msg.messageId \in pendingMap
    THEN /\ pendingMap' = pendingMap \ {msg.messageId}
         /\ reqs'[msg.messageId].p.state = "resolved"
         /\ reqs'[msg.messageId].p.value = msg
         /\ \A j \in DOMAIN reqs : j # msg.messageId => reqs'[j] = reqs[j]
         /\ UNCHANGED <<waitMap, waiters, streamingTaskHandlers, cbLog, messagesData,
                        connectionState>>
    ELSE IF msg.eventType \in DOMAIN waitMap /\ waitMap[msg.eventType] # Null
    THEN /\ waitMap' = [waitMap EXCEPT ![msg.eventType] = Null]
         /\ waiters'[waitMap[msg.eventType]].p =
                Resolve(waiters[waitMap[msg.eventType]].p, msg)
         /\ \A j \in DOMAIN waiters :
                j # waitMap[msg.eventType] => waiters'[j] = waiters[j]
         /\ UNCHANGED <<pendingMap, reqs, streamingTaskHandlers, cbLog, messagesData,
                        connectionState>>
    ELSE UNCHANGED <<pendingMap, reqs, waitMap, waiters, streamingTaskHandlers, cbLog,
                     messagesData, connectionState>>

C25_Step ==
    \A s \in DOMAIN socks : \A msg \in StreamMsgs \cup ReplyMsgs :
        SockMessage(s, msg) => Routed(msg)

\* C25: every received message triggers at most one dispatch, chosen by
\* priority: (1) a StreamLongRunningTaskEvent goes only to the streaming
\* handler of its task id; (2) otherwise a pending messageId settles that
\* request; (3) otherwise a waiter of the eventType is resolved; (4) otherwise
\* it is dropped and the pending map, waiter map, handler map, queue and
\* connection state are unchanged.
C25_InboundRouting == [][C25_Step]_vars

\* C25 case: a reply settled its pending request while a waiter of the same
\* event type stays registered and unresolved
C25_Witness ==
    /\ reqs # <<>> /\ waiters # <<>>
    /\ reqs[1].p.state = "resolved"
    /\ waitMap[reqs[1].p.value.eventType] = 1
    /\ waiters[1].p.state = "pending"

C26_Step ==
    \A s \in DOMAIN socks : \A msg \in ReplyMsgs :
        (SockMessage(s, msg) /\ msg.messageId # Null) =>
            UNCHANGED <<waitMap, waiters>>

\* C26: an event waiter is resolved only by a non-correlated inbound message:
\* a message that carries a correlation id, a late response to a request that
\* has timed out included, never resolves an event waiter even when its
\* eventType equals the waiter's event type.
C26_WaiterOnlyByUncorrelated == [][C26_Step]_vars

\* C26 case: the only request has timed out and a waiter holds a value that
\* carries the messageId of that request
C26_LateReplyResolvedWaiter ==
    /\ reqs # <<>> /\ waiters # <<>>
    /\ reqs[1].p.state = "rejected"
    /\ waiters[1].p.state = "resolved"
    /\ waiters[1].p.value.messageId = 1

C27_Step ==
    streamingTaskHandlers' # streamingTaskHandlers =>
        \/ \E t \in cap.tasks :
              /\ AddStreamingTaskHandler(t)
              /\ streamingTaskHandlers'[t] # Null
              /\ \A u \in DOMAIN streamingTaskHandlers :
                    u # t => streamingTaskHandlers'[u] = streamingTaskHandlers[u]
        \/ \E s \in DOMAIN socks : \E msg \in StreamMsgs :
              /\ SockMessage(s, msg)
              /\ msg.type = "close"
              /\ streamingTaskHandlers[msg.uniqueTaskId] # Null
              /\ streamingTaskHandlers' =
                     [streamingTaskHandlers EXCEPT ![msg.uniqueTaskId] = Null]

\* C27: the streaming handler map is changed only by addStreamingTaskHandler
\* (insert) and by a terminal close event for a registered task (delete):
\* disconnect(), unexpected close, reconnect, request timeouts and all other
\* inbound messages leave every registered handler in place.
C27_HandlersKept == [][C27_Step]_vars

\* C27 case: a handler that has received an event on the first socket is still
\* registered after disconnect() has dropped that socket
C27_Witness ==
    /\ inLog # <<>> /\ inLog[1].h # Null
    /\ streamingTaskHandlers[inLog[1].msg.uniqueTaskId] = inLog[1].h
    /\ ws = Null
    /\ sockHistory # <<>> /\ sockHistory[Len(sockHistory)].disconnected

\* the Sandbox has disconnected while its command's handler was registered
\* and the promise of the command open
C28_Orphaned == tornDown /\ cmd.pc = "streaming"

C28_Step ==
    C28_Orphaned =>
        /\ C28_Orphaned'
        /\ cmd'.resolves = cmd.resolves
        /\ Len(cbLog') >= Len(cbLog)
        /\ \A i \in Len(cbLog) + 1 .. Len(cbLog') : cbLog'[i].cb # "onClose"

UnexpectedClose(s) == SockClose(s) /\ socks[s].listeners

C29_CloseStep ==
    \A s \in DOMAIN socks :
        UnexpectedClose(s) =>
            /\ \A i \in DOMAIN reqs :
                   ~Settled(i) => /\ reqs'[i].p.state = "rejected"
                                  /\ reqs'[i].p.reason = "closed"
            /\ \A w \in DOMAIN waiters :
                   Outstanding(w) => /\ waiters'[w].p.state = "rejected"
                                     /\ waiters'[w].p.reason = "closed"
            /\ pendingMap' = {}
            /\ \A t \in InTypes : waitMap'[t] = Null
            /\ connectionState' = "disconnected"

\* a request or waiter failed by a close is never in a map again and never
\* resolved
C29_NeverRevived ==
    /\ \A i \in DOMAIN reqs :
           reqs[i].p.reason = "closed" =>
               (reqs'[i].p = reqs[i].p /\ i \notin pendingMap')
    /\ \A w \in DOMAIN waiters :
           waiters[w].p.reason = "closed" =>
               (waiters'[w].p.state = "rejected" /\ ~Registered(w)')

\* C29: on an unexpected close of the transport, every pending request and
\* every event waiter outstanding at that moment is failed immediately with
\* 'WebSocket closed' and removed, the state becomes 'disconnected', and none
\* of them is re-registered or resolved after a successful reconnect.
C29_CloseFailsAll == [][C29_CloseStep /\ C29_NeverRevived]_vars

\* what the close does achieve: the same for the requests and for the waiters
\* that are registered in the waiter map
C29_RegisteredStep ==
    \A s \in DOMAIN socks :
        UnexpectedClose(s) =>
            /\ \A i \in DOMAIN reqs :
                   ~Settled(i) => /\ reqs'[i].p.state = "rejected"
                                  /\ reqs'[i].p.reason = "closed"
            /\ \A w \in DOMAIN waiters :
                   Registered(w) => /\ waiters'[w].p.state = "rejected"
                                    /\ waiters'[w].p.reason = "closed"
            /\ pendingMap' = {}
            /\ \A t \in InTypes : waitMap'[t] = Null
            /\ connectionState' = "disconnected"

C29_CloseFailsRegistered == [][C29_RegisteredStep /\ C29_NeverRevived]_vars

\* the timeout of a health ping leaves the connection alone
C30_FailStep ==
    \A i \in DOMAIN reqs :
        (reqs[i].eventType = "HealthPing" /\ RequestTimeout(i)) =>
            UNCHANGED <<connectionState, ws, socks, shouldAutoReconnect,
                        healthPingTimeoutId>>

\* the connection state changes only on the transport's events
C30_StateStep ==
    connectionState' # connectionState =>
        \E s \in DOMAIN socks : SockOpen(s) \/ SockClose(s) \/ SockFail(s)

\* the ping timer is armed whenever the state is 'connected'
C30_CycleRuns == connectionState = "connected" => healthPingTimeoutId = "armed"

\* C30: a failed health ping (timed out, failed by close, or the transport
\* send throwing) never changes the connection state and never triggers
\* disconnect or reconnect; the connection state changes only on the
\* transport's open/close events, and the ping cycle keeps running while the
\* state is 'connected'.
C30_PingNeverEscalates == [][C30_FailStep /\ C30_StateStep]_vars /\ []C30_CycleRuns

\* C30 case: disconnect() has cleared the ping timer and the state still reads
\* 'connected'
C30_ConnectedWithoutPing ==
    /\ connectionState = "connected"
    /\ ws = Null
    /\ healthPingTimeoutId # "armed"
    /\ \E i \in DOMAIN reqs : reqs[i].eventType = "HealthPing"

\* what does hold: a ping's timeout changes nothing of the connection; the
\* state changes only in connect() and on the transport's events; the timer is
\* armed while the wrapper is connected and holds its socket
C30_StateStepWithConnect ==
    connectionState' # connectionState =>
        \/ Connect
        \/ \E s \in DOMAIN socks : SockOpen(s) \/ SockClose(s) \/ SockFail(s) \/ Reconnect(s)

C30_CycleRunsOnSocket ==
    (connectionState = "connected" /\ ws # Null) => healthPingTimeoutId = "armed"

C30_PingLogged ==
    [][C30_FailStep /\ C30_StateStepWithConnect]_vars /\ []C30_CycleRunsOnSocket

\* the wrapper leaves its socket: disconnect(), or a close or failure event
\* that finds it listening
LeavesSocket ==
    \/ Disconnect
    \/ \E s \in DOMAIN socks : UnexpectedClose(s)
    \/ \E s \in DOMAIN socks : SockFail(s) /\ socks[s].listeners

C31_OneTimer ==
    /\ pingTimers <= 1
    /\ pingTimers = 1 <=> healthPingTimeoutId = "armed"

C31_Step ==
    /\ (/\ Len(reqs') > Len(reqs)
        /\ reqs'[Len(reqs')].eventType = "HealthPing") => connectionState = "connected"
    /\ LeavesSocket => pingTimers' = 0
    /\ (pingTimers = 0 /\ pingTimers' > 0) => \E s \in DOMAIN socks : SockOpen(s)

\* C31: in every reachable state at most one ping timer is armed per wrapper
\* (after repeated opens through reconnect too), a HealthPing request is
\* created only while the state is 'connected', and no ping timer remains
\* armed after disconnect() or an unexpected close until the next open.
C31_PingCycle == []C31_OneTimer /\ [][C31_Step]_vars

\* C31 case: the second socket has opened after the first closed, pings have
\* been sent, and one timer is armed
C31_Witness ==
    /\ Len(socks) = 2
    /\ socks[1].readyState = "CLOSED" /\ socks[2].readyState = "OPEN"
    /\ pingTimers = 1
    /\ \E i \in DOMAIN reqs : reqs[i].eventType = "HealthPing"

\* the requests whose message is in the outbound queue
Queued == {messagesData[k] : k \in DOMAIN messagesData}
QueuedAfter == {messagesData'[k] : k \in DOMAIN messagesData'}

\* the requests whose message this step hands to the transport
HandedOver ==
    {transportLog'[k].id : k \in Len(transportLog) + 1 .. Len(transportLog')}

C32_Step ==
    \A m \in Queued \ QueuedAfter :
        \/ m \in HandedOver /\ \E s \in DOMAIN socks : SockOpen(s)
        \/ LeavesSocket /\ reqs'[m].p.state # "pending"

\* C32: a message leaves the outbound queue only by being handed to the
\* transport on (re)connection or by a teardown that also fails its pending
\* request: no queued message is discarded while its request is still pending
\* and later left to time out, and an unexpected close does not silently drop
\* queued messages.
C32_QueueNeverDropsSilently == [][C32_Step]_vars

\* C32 case: a message that was queued has been handed to the second socket
\* when it opened
C32_Witness ==
    \E k \in DOMAIN transportLog :
        /\ reqs[transportLog[k].id].queued
        /\ transportLog[k].sock = 2
        /\ messagesData = <<>>

\* a disconnect() call that was waiting for its HTTP call ends, returning or
\* throwing: the wrapper it was tearing down is closed and released
C33_Step ==
    (disconnecting /\ ~disconnecting') =>
        /\ ~SandboxIsConnected'
        /\ sandboxWs' = Null
        /\ wrappers'[teardownWs].readyState # "OPEN"

\* C33: the HTTP disconnect notification is fire-and-forget: when that call
\* fails, Sandbox.disconnect() still closes the wrapper, so after a
\* disconnect() call on a connected Sandbox, whether it returns or throws, no
\* physical connection remains open and the Sandbox reports not connected.
C33_ClosedEvenIfHttpFails == [][C33_Step]_vars

\* what does hold: the same for the disconnect() calls that return
C33_ReturnStep ==
    SandboxDisconnectResume =>
        /\ ~SandboxIsConnected'
        /\ sandboxWs' = Null
        /\ wrappers'[teardownWs].readyState # "OPEN"

C33_ClosedWhenReturned == [][C33_ReturnStep]_vars

\* the call that ended last: what it sent and how it ended
C34_PerCall ==
    /\ api.sent \in {0, 1}
    /\ api.requests = api.validCalls
    /\ api.pc = "no client" =>
           /\ api.key = <<"null">> \/ \A k \in DOMAIN api.key : api.key[k] = " "
           /\ api.requests = 0
    /\ api.pc \in {"ready", "fetching", "reading", "returned", "failed"} =>
           \E k \in DOMAIN api.key : api.key[k] # " "
    /\ api.pc \in {"fetching", "reading"} => api.sent = 1
    /\ api.pc \in {"returned", "failed"} => (api.sent = 0 <=> ~api.inputOk)
    /\ api.pc = "returned" => (api.reply = "ok" /\ api.data)
    /\ api.pc = "failed" => (~api.data /\ api.err # "none")
    /\ (api.pc \in {"returned", "failed"} /\ api.inputOk /\ api.reply # "ok") =>
           api.pc = "failed"
    /\ (api.pc = "failed" /\ api.inputOk /\ api.reply = "error: school not found") =>
           api.err = "Invalid API key"

\* a request is issued only when a call starts
C34_Step ==
    api'.requests # api.requests =>
        /\ api'.requests = api.requests + 1
        /\ api'.calls = api.calls + 1

\* C34: a call of the ApiClient issues at most one HTTP request and never
\* retries: none when the API key is null or blank or the input fails
\* validation, exactly one otherwise; a non-success status, a malformed
\* envelope and an 'error' envelope each make the call fail ('school not
\* found' reported as 'Invalid API key') and are never returned as data.
C34_OneRequestPerCall == []C34_PerCall /\ [][C34_Step]_vars

\* C34 case: the second call failed on an 'error' envelope after a first call
\* that sent its request too
C34_Witness ==
    /\ api.pc = "failed"
    /\ api.calls = 2 /\ api.requests = 2
    /\ api.reply = "error: other"

\* the sockets that can still deliver an event to the wrapper
LiveSockets ==
    {s \in DOMAIN socks : socks[s].listeners /\ socks[s].readyState # "CLOSED"}

\* C35: a wrapper has at most one transport socket with live listeners at any
\* time: for every interleaving of connect() calls (a second connect() while
\* 'connecting' included), transport events and auto-reconnect, no earlier
\* socket can deliver open, message or close events to the wrapper once a
\* newer socket has been created.
C35_OneLiveSocket == Cardinality(LiveSockets) <= 1

\* C35 case: the first socket has opened and delivers events to the wrapper,
\* whose this.ws is the second socket, still connecting
C35_TwoLiveSockets ==
    /\ Len(socks) = 2
    /\ LiveSockets = {1, 2}
    /\ socks[1].readyState = "OPEN" /\ socks[2].readyState = "CONNECTING"
    /\ ws = 2
    /\ connectionState = "connected"

C36_QueuedArePending == Queued \subseteq pendingMap

\* a request that timed out is not handed to the transport afterwards
C36_Step ==
    \A m \in HandedOver : m \in DOMAIN reqs => reqs[m].p.reason # "timeout"

\* C36: in every reachable state each message in the outbound queue belongs to
\* a request that is still in the pending map; a request that has already
\* failed by timeout while its message was queued is never delivered to the
\* transport on a later (re)connection.
C36_QueueMatchesPending == []C36_QueuedArePending /\ [][C36_Step]_vars

\* C36 case: the message of a request that has timed out is still queued
C36_TimedOutStillQueued ==
    \E m \in Queued : reqs[m].p.reason = "timeout" /\ m \notin pendingMap

\* the timed-out request reaches the transport when the socket opens
C36_NeverSentLate == [][C36_Step]_vars

\* the reply that accepts the command has been dispatched
Accepted ==
    /\ cmd.req # Null
    /\ reqs[cmd.req].p.state = "resolved"
    /\ reqs[cmd.req].p.value.eventType = "RunLongRunningCommand"

\* the task the accepted command runs as
AcceptedTask == reqs[cmd.req].p.value.uniqueTaskId

\* the events of that task that arrived after the reply, up to its first close
\* event
TaskEvents ==
    {i \in DOMAIN inLog :
        /\ cmd.startN < i
        /\ inLog[i].msg.uniqueTaskId = AcceptedTask
        /\ \A j \in cmd.startN + 1 .. i - 1 :
               ~(inLog[j].msg.uniqueTaskId = AcceptedTask /\ inLog[j].msg.type = "close")}

\* C37: no streaming event is lost between acceptance and handler
\* registration: every StreamLongRunningTaskEvent the server sends for a task
\* after its start reply (the terminal close in particular) is dispatched to
\* that task's handler, so an accepted command whose close event is delivered
\* always resolves.
C37_NoEventLost ==
    Accepted =>
        /\ \A i \in TaskEvents : inLog[i].h # Null
        /\ (\E i \in TaskEvents : inLog[i].msg.type = "close") => cmd.pc = "resolved"

\* C37 case: the close event of the task arrived after the reply and before
\* the handler was registered; the command streams and never resolves
C37_CloseLost ==
    /\ Accepted
    /\ cmd.pc = "streaming"
    /\ \E i \in TaskEvents : inLog[i].msg.type = "close" /\ inLog[i].h = Null
    /\ streamingTaskHandlers[cmd.task] = cmd.h

\* what does hold: the same for the events that arrive after the handler is
\* registered
C37_NoEventLostOnceRegistered ==
    (Accepted /\ cmd.pc \in {"streaming", "resolved"}) =>
        /\ \A i \in TaskEvents : cmd.regN < i => inLog[i].h = cmd.h
        /\ (\E i \in TaskEvents : cmd.regN < i /\ inLog[i].msg.type = "close")
               => cmd.pc = "resolved"

\* a waiter that is unsettled and whose own deadline has not passed is the
\* one registered for its event type
C38_WaitingIsRegistered ==
    \A w \in DOMAIN waiters :
        (Outstanding(w) /\ waiters[w].timer = "armed") => waitMap[waiters[w].eventType] = w

\* the timer of a waiter leaves the registration of every other waiter alone
C38_Step ==
    \A w \in DOMAIN waiters :
        WaiterTimeout(w) =>
            \A t \in InTypes : waitMap[t] # w => waitMap'[t] = waitMap[t]

\* C38: an event waiter's registration is removed only by a matching event, by
\* its own timeout, or by teardown: the timer of a waiter that was superseded
\* (or already resolved) never removes or fails the waiter currently
\* registered for the same event type, so a matching event arriving before the
\* current waiter's own deadline always resolves it.
C38_OnlyOwnTimeout == []C38_WaitingIsRegistered /\ [][C38_Step]_vars

\* C38 case: the timer of the superseded first waiter has fired and the second
\* waiter, unsettled and before its deadline, is no longer registered
C38_StaleTimerUnregistered ==
    /\ Len(waiters) >= 2
    /\ waiters[1].p.reason = "replaced" /\ waiters[1].timer = "fired"
    /\ waiters[2].eventType = waiters[1].eventType
    /\ Outstanding(2) /\ waiters[2].timer = "armed"
    /\ waitMap[waiters[2].eventType] = Null

\* the Sandbox was created and not torn down, and its wrapper is between an
\* unexpected close and the reconnect
AwaitingReconnect ==
    /\ \E c \in DOMAIN calls : calls[c].pc = "done"
    /\ NoCallInProgress
    /\ ~tornDown /\ ~disconnecting
    /\ sandboxWs # Null
    /\ wrappers[sandboxWs].connectionState = "disconnected"
    /\ wrappers[sandboxWs].backoff

\* a disconnect() called then does not fail and disables auto-reconnect
C39_CallStep ==
    (AwaitingReconnect /\ (SessionOp("disconnect") \/ SandboxDisconnect)) =>
        /\ lastOp'.outcome # NotConnectedError
        /\ ~wrappers'[sandboxWs].shouldAutoReconnect

\* C39: a Sandbox whose create() or fromSnippet() succeeded can be torn down
\* at any later moment before teardown: Sandbox.disconnect() called while the
\* wrapper is between an unexpected close and its reconnect attempt also
\* succeeds, disables auto-reconnect, and no connection for that Sandbox is
\* established afterwards.
C39_TeardownWhileReconnecting == [][C39_CallStep]_vars

\* C39 case: disconnect() has just failed on a created Sandbox whose wrapper
\* still waits to reconnect, auto-reconnect enabled
C39_DisconnectRefused ==
    /\ AwaitingReconnect
    /\ lastOp.op = "disconnect"
    /\ lastOp.outcome = NotConnectedError
    /\ wrappers[sandboxWs].shouldAutoReconnect

\* ------------------------------------------------------------------ C40

\* the caller of the send() followed named no timeout: it omitted the
\* options argument, or passed an object without a timeout field
NoTimeoutSupplied == sendTimer.state # "none" /\ sendTimer.timeout = <<>>

\* the request of the send() followed was failed by its timeout
FailedByTimeout ==
    /\ sendTimer.state = "fired"
    /\ reqs[sendTimer.req].p.state = "rejected"
    /\ reqs[sendTimer.req].p.reason = "timeout"

\* C40: whenever the caller of send() supplies no timeout value, with the
\* options argument omitted or with an options object that has no timeout
\* field, the request is not failed by timeout before 30000 ms have elapsed
C40_DefaultTimeout ==
    (NoTimeoutSupplied /\ FailedByTimeout) => sendTimer.firedAt >= 30000

\* a send() that was passed an options object without a timeout field was
\* failed by timeout before 30000 ms had elapsed
C40_EmptyOptionsFailedEarly ==
    /\ NoTimeoutSupplied /\ sendTimer.given
    /\ FailedByTimeout
    /\ sendTimer.firedAt < 30000

\* with the options argument omitted the default holds
C40_OmittedDefault ==
    (NoTimeoutSupplied /\ ~sendTimer.given /\ FailedByTimeout)
        => sendTimer.firedAt >= 30000

\* a send() whose options argument was omitted was failed by its timeout
C40_OmittedTimedOut ==
    NoTimeoutSupplied /\ ~sendTimer.given /\ FailedByTimeout

====
